---- MODULE Spec2Model ----
(***************************************************************************)
(* Behavioural-pattern mining and risk correlation of vigilant_child:      *)
(* PatternAnalyzer (analyzers/pattern_analyzer.py) and the correlation     *)
(* engine of IntegratedAnalysisSystem (integrated_analysis.py).            *)
(*                                                                         *)
(* Conventions.                                                            *)
(*  - A Python str is a tuple of one-character strings ("office" is        *)
(*    <<"o","f","f","i","c","e">>), so that lower(), strip(), split() and  *)
(*    the substring test `a in b` are computed, not assumed.               *)
(*  - A datetime is a whole number of seconds since 2024-01-01T00:00:00    *)
(*    (naive local time); a timedelta is a number of seconds.              *)
(*  - A Python dict result is a record; None is the record None.           *)
(*  - A float that the code only adds in steps of 0.5 is kept doubled      *)
(*    (risk_score2 = 2 * risk_score); a quotient is kept as num/den.       *)
(***************************************************************************)
EXTENDS Integers, Sequences, FiniteSets, TLC

VARIABLES
    detections_table,   \* rows of the Cassandra table `detections`, in row order
    temporal_patterns,  \* rows of the Cassandra table `temporal_patterns`
    clock,              \* datetime.now()
    analysis_history,   \* IntegratedAnalysisSystem.analysis_history
    call,               \* the call being served: [op |-> name, arguments ...]
    ret                 \* the value the call returned, NotReturned before it does

vars == <<detections_table, temporal_patterns, clock, analysis_history, call, ret>>

\* a call on arguments alone: nothing stored, the clock unread
StoreIdle ==
    detections_table = <<>> /\ temporal_patterns = <<>> /\ clock = 0 /\ analysis_history = <<>>

NotReturned == [kind |-> "NotReturned"]
None == [kind |-> "None"]

-----------------------------------------------------------------------------
(* Python str                                                              *)

UpperLetters == <<"A","B","C","D","E","F","G","H","I","J","K","L","M",
                  "N","O","P","Q","R","S","T","U","V","W","X","Y","Z">>
LowerLetters == <<"a","b","c","d","e","f","g","h","i","j","k","l","m",
                  "n","o","p","q","r","s","t","u","v","w","x","y","z">>

LowerChar(c) ==
    IF \E i \in 1..Len(UpperLetters) : UpperLetters[i] = c
    THEN LowerLetters[CHOOSE i \in 1..Len(UpperLetters) : UpperLetters[i] = c]
    ELSE c

\* str.lower()
Lower(s) == [i \in 1..Len(s) |-> LowerChar(s[i])]

\* needle in hay
Contains(hay, needle) ==
    \E i \in 0..(Len(hay) - Len(needle)) : SubSeq(hay, i + 1, i + Len(needle)) = needle

\* sep.join(parts)
RECURSIVE Join(_, _)
Join(sep, parts) ==
    IF parts = <<>> THEN <<>>
    ELSE IF Len(parts) = 1 THEN parts[1]
    ELSE parts[1] \o sep \o Join(sep, Tail(parts))

Arrow == <<" ", "-", ">", " ">>

-----------------------------------------------------------------------------
(* datetime                                                                *)

DateOf(ts) == ts \div 86400
HourOf(ts) == (ts % 86400) \div 3600
MinuteOf(ts) == (ts % 3600) \div 60
SecondOf(ts) == ts % 60

Digits == <<"0","1","2","3","4","5","6","7","8","9">>
TwoDigits(n) == <<Digits[((n \div 10) % 10) + 1], Digits[(n % 10) + 1]>>

\* strftime('%H:%M')
StrftimeHM(ts) == TwoDigits(HourOf(ts)) \o <<":">> \o TwoDigits(MinuteOf(ts))

\* date.isoformat(); day 0 is 2024-01-01 and the model stays within January
DateIso(d) == <<"2","0","2","4","-","0","1","-">> \o TwoDigits(d + 1)

\* datetime.isoformat() of a datetime with no microseconds
IsoFormat(ts) ==
    DateIso(DateOf(ts)) \o <<"T">> \o TwoDigits(HourOf(ts)) \o <<":">>
        \o TwoDigits(MinuteOf(ts)) \o <<":">> \o TwoDigits(SecondOf(ts))

At(h, m, s) == h * 3600 + m * 60 + s

-----------------------------------------------------------------------------
(* DetectionRecord                                                         *)

\* confidence is kept in hundredths; attributes, face_info and badge_info are
\* payloads no analysis reads
DetectionRecordWith(ts, emp, loc, conf) ==
    [timestamp |-> ts, employee_id |-> emp, location |-> loc, confidence |-> conf]

DetectionRecord(ts, emp, loc) == DetectionRecordWith(ts, emp, loc, 90)

Office == <<"o","f","f","i","c","e">>
Hallway == <<"h","a","l","l","w","a","y">>
ServerRoom == <<"s","e","r","v","e","r","_","r","o","o","m">>
ServerRoomCapitalised == <<"S","e","r","v","e","r","_","R","o","o","m">>
ReceptionDesk == <<"r","e","c","e","p","t","i","o","n">>
MainEntrance == <<"M","a","i","n"," ","E","n","t","r","a","n","c","e">>

\* a list value returned by a call
Returned(v) == [kind |-> "value", value |-> v]

-----------------------------------------------------------------------------
(* PatternAnalyzer._detect_lunch_break                                     *)

NoTime == -1

IsLunchGapUpTo3h(gap) == 30 * 60 < gap /\ gap <= 3 * 3600

\* timedelta(minutes=30) < gap < timedelta(hours=3)
IsLunchGap(gap) == 30 * 60 < gap /\ gap < 3 * 3600

RECURSIVE LunchScan(_, _, _)
LunchScan(day_detections, i, acc) ==
    IF i > Len(day_detections) - 1 THEN acc
    ELSE LET gap == day_detections[i + 1].timestamp - day_detections[i].timestamp
         IN IF IsLunchGap(gap) /\ gap > acc.max_gap
            THEN LunchScan(day_detections, i + 1,
                           [max_gap |-> gap,
                            lunch_start |-> day_detections[i].timestamp,
                            lunch_end |-> day_detections[i + 1].timestamp])
            ELSE LunchScan(day_detections, i + 1, acc)

DetectLunchBreak(day_detections) ==
    IF Len(day_detections) < 2 THEN None
    ELSE LET acc == LunchScan(day_detections, 1,
                              [max_gap |-> 0, lunch_start |-> NoTime, lunch_end |-> NoTime])
         IN IF acc.lunch_start # NoTime /\ acc.lunch_end # NoTime
            THEN [kind |-> "lunch",
                  start_time |-> StrftimeHM(acc.lunch_start),
                  end_time |-> StrftimeHM(acc.lunch_end),
                  duration_minutes |-> acc.max_gap \div 60]
            ELSE None

-----------------------------------------------------------------------------
(* One day's detections, sorted by timestamp, handed to _detect_lunch_break *)

MaxDay == 4

LunchTimes ==
    {At(9,0,0), At(9,30,0), At(12,0,0), At(12,0,30), At(13,45,0),
     At(15,0,0), At(16,15,0), At(18,0,0)}

SortedTimes(n) ==
    {s \in [1..n -> LunchTimes] : \A i \in 1..(n - 1) : s[i] <= s[i + 1]}

SortedDays ==
    UNION {{[i \in 1..n |-> DetectionRecord(s[i], <<"e","1">>, Office)] : s \in SortedTimes(n)}
           : n \in 0..MaxDay}

InitLunch ==
    /\ StoreIdle
    /\ call \in {[op |-> "_detect_lunch_break", day_detections |-> d] : d \in SortedDays}
    /\ ret = NotReturned

DetectLunchBreakCall ==
    /\ call.op = "_detect_lunch_break"
    /\ ret = NotReturned
    /\ ret' = DetectLunchBreak(call.day_detections)
    /\ UNCHANGED <<detections_table, temporal_patterns, analysis_history, clock, call>>

NextLunch == DetectLunchBreakCall

SpecLunch == InitLunch /\ [][NextLunch]_vars

\* C1: for one day's detections sorted by timestamp, _detect_lunch_break returns
\* a consecutive-pair gap that is largest among the gaps strictly between 30 and
\* 180 minutes, with its start and end as HH:MM and its duration in whole
\* minutes, and returns None when no gap lies strictly between 30 and 180 minutes.
C1_LunchIsLargestQualifyingGap ==
    (call.op = "_detect_lunch_break" /\ ret # NotReturned) =>
        LET d == call.day_detections
            Gap(i) == d[i + 1].timestamp - d[i].timestamp
            Q == {i \in 1..(Len(d) - 1) : Gap(i) > 30 * 60 /\ Gap(i) < 180 * 60}
        IN IF Q = {} THEN ret = None
           ELSE \E i \in Q :
                  /\ \A j \in Q : Gap(j) <= Gap(i)
                  /\ ret = [kind |-> "lunch",
                            start_time |-> StrftimeHM(d[i].timestamp),
                            end_time |-> StrftimeHM(d[i + 1].timestamp),
                            duration_minutes |-> Gap(i) \div 60]

\* 09:00, 12:00, 13:45, 18:00 gives 12:00-13:45, 105 minutes
C1_Witness ==
    /\ call.op = "_detect_lunch_break"
    /\ Len(call.day_detections) = 4
    /\ call.day_detections[1].timestamp = At(9,0,0)
    /\ call.day_detections[2].timestamp = At(12,0,0)
    /\ call.day_detections[3].timestamp = At(13,45,0)
    /\ call.day_detections[4].timestamp = At(18,0,0)
    /\ ret = [kind |-> "lunch",
              start_time |-> <<"1","2",":","0","0">>,
              end_time |-> <<"1","3",":","4","5">>,
              duration_minutes |-> 105]

-----------------------------------------------------------------------------
(* dict.get                                                                *)

Get(d, key, default) == IF key \in DOMAIN d THEN d[key] ELSE default

Min(a, b) == IF a < b THEN a ELSE b

-----------------------------------------------------------------------------
(* PatternAnalyzer._assess_behavioral_risk                                 *)
(* risk_score is kept doubled: risk_score2 = 2 * risk_score.               *)

\* if severity == 'high': 3, elif severity == 'medium': 2, else: 1
SeverityWeight(severity) ==
    IF severity = "high" THEN 3
    ELSE IF severity = "medium" THEN 2
    ELSE 1

RECURSIVE AnomalyScore(_)
AnomalyScore(anomalies) ==
    IF anomalies = <<>> THEN 0
    ELSE SeverityWeight(Get(Head(anomalies), "severity", "low")) + AnomalyScore(Tail(anomalies))

IsRestrictedAccess(a) == Get(a, "type", "") = "restricted_area_access"

RestrictedAccessesBySeverity(anomalies) ==
    SelectSeq(anomalies, LAMBDA a : Get(a, "severity", "low") = "high")

\* [a for a in anomalies if a.get('type') == 'restricted_area_access']
RestrictedAccesses(anomalies) == SelectSeq(anomalies, IsRestrictedAccess)

RiskLevelExclusive(risk_score2) ==
    IF risk_score2 > 2 * 7 THEN "critical"
    ELSE IF risk_score2 > 2 * 5 THEN "high"
    ELSE IF risk_score2 > 2 * 2 THEN "medium"
    ELSE "low"

RiskLevel(risk_score2) ==
    IF risk_score2 >= 2 * 7 THEN "critical"
    ELSE IF risk_score2 >= 2 * 5 THEN "high"
    ELSE IF risk_score2 >= 2 * 2 THEN "medium"
    ELSE "low"

\* the f-string f"{n} <text>" is kept as its number and its text
Factor(n, text) == [count |-> n, text |-> text]

RiskFactors(anomalies, changes, restricted_accesses) ==
    (IF anomalies # <<>> THEN <<Factor(Len(anomalies), "anomalias detectadas")>> ELSE <<>>)
    \o (IF changes # <<>> THEN <<Factor(Len(changes), "mudancas comportamentais")>> ELSE <<>>)
    \o (IF restricted_accesses # <<>>
        THEN <<Factor(Len(restricted_accesses), "acessos a areas restritas")>> ELSE <<>>)

\* social_score > 0.7, social_score being num/den
SocialScoreAbove07(social_score) == 10 * social_score.num > 7 * social_score.den

ZeroScore == [num |-> 0, den |-> 1]

ProtectiveFactors(analysis_results) ==
    LET patterns == Get(analysis_results, "patterns_detected", [none |-> TRUE])
        social_score == Get(Get(patterns, "social", [none |-> TRUE]), "social_score", ZeroScore)
        arrival_times == Get(Get(patterns, "temporal", [none |-> TRUE]), "arrival_times", <<>>)
    IN (IF SocialScoreAbove07(social_score) THEN <<"Alta interacao social">> ELSE <<>>)
       \o (IF arrival_times # <<>> THEN <<"Padrao de horarios consistente">> ELSE <<>>)

AssessBehavioralRisk(analysis_results) ==
    LET anomalies == Get(analysis_results, "anomalies", <<>>)
        changes == Get(analysis_results, "behavioral_changes", <<>>)
        restricted_accesses == RestrictedAccesses(anomalies)
        risk_score2 == Min(2 * 10,
                           2 * AnomalyScore(anomalies) + 3 * Len(changes)
                               + 2 * 4 * Len(restricted_accesses))
    IN [kind |-> "risk_assessment",
        overall_risk_level |-> RiskLevel(risk_score2),
        risk_score2 |-> risk_score2,
        risk_factors |-> RiskFactors(anomalies, changes, restricted_accesses),
        protective_factors |-> ProtectiveFactors(analysis_results)]

-----------------------------------------------------------------------------
(* Anomaly and change lists handed to _assess_behavioral_risk              *)

MaxAnomalies == 3
MaxChanges == 2

Severities == {"low", "medium", "high", "critical"}
AnomalyTypes == {"restricted_area_access", "unusual_hour_presence"}

AnomalyInputs == {[type |-> t, severity |-> s] : t \in AnomalyTypes, s \in Severities}

AnomalyLists == UNION {[1..n -> AnomalyInputs] : n \in 0..MaxAnomalies}

ChangeLists ==
    {[i \in 1..n |-> [type |-> "location_pattern_change", severity |-> "medium"]]
     : n \in 0..MaxChanges}

InitRisk ==
    /\ StoreIdle
    /\ call \in {[op |-> "_assess_behavioral_risk",
                  analysis_results |-> [anomalies |-> a, behavioral_changes |-> c]]
                 : a \in AnomalyLists, c \in ChangeLists}
    /\ ret = NotReturned

AssessBehavioralRiskCall ==
    /\ call.op = "_assess_behavioral_risk"
    /\ ret = NotReturned
    /\ ret' = AssessBehavioralRisk(call.analysis_results)
    /\ UNCHANGED <<detections_table, temporal_patterns, analysis_history, clock, call>>

NextRisk == AssessBehavioralRiskCall

SpecRisk == InitRisk /\ [][NextRisk]_vars

CountWhere(seq, Test(_)) == Cardinality({i \in 1..Len(seq) : Test(seq[i])})

\* C2: for anomalies of severity low, medium or high and any behavioral changes,
\* risk_score = min(10, 1 per low + 2 per medium + 3 per high anomaly
\* + 1.5 per behavioral change + 4 per restricted_area_access anomaly);
\* one high restricted_area_access anomaly alone scores 7, level critical.
C2_RiskScoreFormula ==
    (call.op = "_assess_behavioral_risk" /\ ret # NotReturned) =>
        LET a == call.analysis_results.anomalies
            c == call.analysis_results.behavioral_changes
            total2 == 2 * (1 * CountWhere(a, LAMBDA x : x.severity = "low")
                           + 2 * CountWhere(a, LAMBDA x : x.severity = "medium")
                           + 3 * CountWhere(a, LAMBDA x : x.severity = "high"))
                      + 3 * Len(c)
                      + 8 * CountWhere(a, LAMBDA x : x.type = "restricted_area_access")
        IN /\ (\A i \in 1..Len(a) : a[i].severity \in {"low", "medium", "high"})
                => ret.risk_score2 = (IF total2 > 20 THEN 20 ELSE total2)
           /\ (a = <<[type |-> "restricted_area_access", severity |-> "high"]>> /\ c = <<>>)
                => (ret.risk_score2 = 14 /\ ret.overall_risk_level = "critical")

C2_Witness ==
    /\ call.op = "_assess_behavioral_risk"
    /\ call.analysis_results.anomalies = <<[type |-> "restricted_area_access", severity |-> "high"]>>
    /\ call.analysis_results.behavioral_changes = <<>>
    /\ ret # NotReturned
    /\ ret.risk_score2 = 14
    /\ ret.overall_risk_level = "critical"

\* C3: risk_score lies in [0,10] and the level follows from the score alone:
\* critical iff score >= 7, high iff 5 <= score < 7, medium iff 2 <= score < 5,
\* low iff score < 2.
C3_RiskLevelThresholds ==
    (call.op = "_assess_behavioral_risk" /\ ret # NotReturned) =>
        /\ ret.risk_score2 >= 0 /\ ret.risk_score2 <= 20
        /\ (ret.overall_risk_level = "critical") <=> (ret.risk_score2 >= 14)
        /\ (ret.overall_risk_level = "high") <=> (ret.risk_score2 >= 10 /\ ret.risk_score2 < 14)
        /\ (ret.overall_risk_level = "medium") <=> (ret.risk_score2 >= 4 /\ ret.risk_score2 < 10)
        /\ (ret.overall_risk_level = "low") <=> (ret.risk_score2 < 4)

\* a score of 7.5 is critical
C3_Witness ==
    /\ call.op = "_assess_behavioral_risk"
    /\ ret # NotReturned
    /\ ret.risk_score2 = 15
    /\ ret.overall_risk_level = "critical"

-----------------------------------------------------------------------------
(* Configuration read through self.pattern_config                          *)

restricted_areas == <<ServerRoom>>

InList(x, list) == \E k \in 1..Len(list) : list[k] = x

-----------------------------------------------------------------------------
(* PatternAnalyzer._detect_unusual_location_sequence, _is_unusual_sequence *)

Reception == <<"r","e","c","e","p","t","i","o","n">>
Entrance == <<"e","n","t","r","a","n","c","e">>

IsUnusualSequenceCaseSensitive(loc1, loc2, loc3) ==
    /\ InList(loc3, restricted_areas)
    /\ ~InList(loc1, restricted_areas)
    /\ ~Contains(loc2, Reception)
    /\ ~Contains(loc2, Entrance)

IsUnusualSequence(loc1, loc2, loc3) ==
    /\ InList(loc3, restricted_areas)
    /\ ~InList(loc1, restricted_areas)
    /\ ~Contains(Lower(loc2), Reception)
    /\ ~Contains(Lower(loc2), Entrance)

RECURSIVE UnusualSequenceScan(_, _)
UnusualSequenceScan(detections, i) ==
    IF i > Len(detections) - 2 THEN <<>>
    ELSE LET loc1 == detections[i].location
             loc2 == detections[i + 1].location
             loc3 == detections[i + 2].location
             sequence == Join(Arrow, <<loc1, loc2, loc3>>)
         IN (IF IsUnusualSequence(loc1, loc2, loc3)
             THEN <<[type |-> "unusual_location_sequence",
                     severity |-> "low",
                     description |-> [text |-> "Sequencia incomum de localizacoes", value |-> sequence],
                     sequence |-> sequence,
                     timestamp |-> IsoFormat(detections[i].timestamp)]>>
             ELSE <<>>)
            \o UnusualSequenceScan(detections, i + 1)

DetectUnusualLocationSequence(detections) == UnusualSequenceScan(detections, 1)

-----------------------------------------------------------------------------
(* Detection lists handed to _detect_unusual_location_sequence             *)

MaxSeq == 4

SeqLocations == {Office, Hallway, ServerRoom, ServerRoomCapitalised, ReceptionDesk, MainEntrance}

\* detections ten minutes apart from 09:10 on, one per location of the list
Walk(locs) == [i \in 1..Len(locs) |-> DetectionRecord(At(9, 10 * i, 0), <<"e","1">>, locs[i])]

Walks == {Walk(locs) : locs \in UNION {[1..n -> SeqLocations] : n \in 0..MaxSeq}}

InitSequence ==
    /\ StoreIdle
    /\ call \in {[op |-> "_detect_unusual_location_sequence", detections |-> d] : d \in Walks}
    /\ ret = NotReturned

DetectUnusualLocationSequenceCall ==
    /\ call.op = "_detect_unusual_location_sequence"
    /\ ret = NotReturned
    /\ ret' = Returned(DetectUnusualLocationSequence(call.detections))
    /\ UNCHANGED <<detections_table, temporal_patterns, analysis_history, clock, call>>

NextSequence == DetectUnusualLocationSequenceCall

SpecSequence == InitSequence /\ [][NextSequence]_vars

\* the triples the rule flags: C a configured restricted area, A not one, and
\* B mentioning neither "reception" nor "entrance" in any letter case
C4_Flagged(d) ==
    {i \in 1..(Len(d) - 2) :
        /\ d[i + 2].location \in {restricted_areas[k] : k \in 1..Len(restricted_areas)}
        /\ d[i].location \notin {restricted_areas[k] : k \in 1..Len(restricted_areas)}
        /\ \A word \in {Reception, Entrance} : ~Contains(Lower(d[i + 1].location), word)}

\* one low-severity unusual_location_sequence anomaly per flagged triple, in
\* order, and none for any other triple
C4_Rule ==
    LET d == call.detections
        F == C4_Flagged(d)
        Nth(k) == CHOOSE i \in F : Cardinality({j \in F : j < i}) = k - 1
        a == ret.value
    IN /\ Len(a) = Cardinality(F)
       /\ \A k \in 1..Len(a) :
            /\ a[k].type = "unusual_location_sequence"
            /\ a[k].severity = "low"
            /\ a[k].sequence = d[Nth(k)].location \o Arrow \o d[Nth(k) + 1].location
                                   \o Arrow \o d[Nth(k) + 2].location
            /\ a[k].timestamp = IsoFormat(d[Nth(k)].timestamp)

C4_TripleAt(d, i, locA, locB, locC) ==
    d[i].location = locA /\ d[i + 1].location = locB /\ d[i + 2].location = locC

C4_Emitted(locA, locB, locC) ==
    \E k \in 1..Len(ret.value) : ret.value[k].sequence = locA \o Arrow \o locB \o Arrow \o locC

C4_Has(locA, locB, locC) ==
    \E i \in 1..(Len(call.detections) - 2) : C4_TripleAt(call.detections, i, locA, locB, locC)

-----------------------------------------------------------------------------
(* IntegratedAnalysisSystem._calculate_name_similarity                     *)
(* The similarity is kept in tenths: name_similarity10 = 10 * similarity.  *)

IsSpace(c) == c = " "

\* str.strip()
RECURSIVE LStrip(_)
LStrip(s) == IF s # <<>> /\ IsSpace(Head(s)) THEN LStrip(Tail(s)) ELSE s

RECURSIVE RStrip(_)
RStrip(s) == IF s # <<>> /\ IsSpace(s[Len(s)]) THEN RStrip(SubSeq(s, 1, Len(s) - 1)) ELSE s

Strip(s) == RStrip(LStrip(s))

\* set(str.split()): the maximal runs of non-space characters
Words(s) ==
    LET n == Len(s)
    IN {SubSeq(s, p[1], p[2]) :
          p \in {q \in (1..n) \X (1..n) :
                   /\ q[1] <= q[2]
                   /\ \A k \in q[1]..q[2] : ~IsSpace(s[k])
                   /\ (q[1] = 1 \/ IsSpace(s[q[1] - 1]))
                   /\ (q[2] = n \/ IsSpace(s[q[2] + 1]))}}

CalculateNameSimilarity(name1, name2) ==
    LET n1 == Strip(Lower(name1))
        n2 == Strip(Lower(name2))
    IN IF n1 = n2 THEN 10
       ELSE IF Contains(n2, n1) \/ Contains(n1, n2) THEN 8
       ELSE IF Words(n1) \cap Words(n2) # {} THEN 6
       ELSE 0

-----------------------------------------------------------------------------
(* IntegratedAnalysisSystem._check_identity_consistency                    *)

EmptyDict == [none |-> TRUE]

NamesMatchFrom08(name_similarity10) == name_similarity10 >= 8

\* name_similarity > 0.8
NamesMatch(name_similarity10) == name_similarity10 > 8

CheckIdentityConsistency(analyses) ==
    LET face_data == Get(analyses, "face", EmptyDict)
        badge_data == Get(analyses, "badge", EmptyDict)
        face_employee == Get(Get(face_data, "employee_info", EmptyDict), "name", <<>>)
        badge_name == Get(badge_data, "potential_name", <<>>)
        name_similarity10 == CalculateNameSimilarity(face_employee, badge_name)
        base == [kind |-> "identity_consistency",
                 face_badge_match |-> FALSE,
                 confidence_level10 |-> 0,
                 discrepancies |-> <<>>,
                 verification_status |-> "unknown"]
    IN IF face_employee # <<>> /\ badge_name # <<>>
       THEN IF NamesMatch(name_similarity10)
            THEN [base EXCEPT !.face_badge_match = TRUE,
                              !.confidence_level10 = name_similarity10,
                              !.verification_status = "verified"]
            ELSE [base EXCEPT !.discrepancies =
                                  <<[text |-> "Nome na face nao confere com cracha",
                                     face |-> face_employee, badge |-> badge_name]>>,
                              !.verification_status = "mismatch"]
       ELSE IF face_employee # <<>> /\ badge_name = <<>>
       THEN [base EXCEPT !.discrepancies =
                             <<[text |-> "Funcionario conhecido mas cracha nao legivel"]>>,
                         !.verification_status = "partial"]
       ELSE IF face_employee = <<>> /\ badge_name # <<>>
       THEN [base EXCEPT !.discrepancies =
                             <<[text |-> "Cracha legivel mas funcionario nao reconhecido"]>>,
                         !.verification_status = "partial"]
       ELSE [base EXCEPT !.discrepancies =
                             <<[text |-> "Nem face nem cracha identificados"]>>,
                         !.verification_status = "unidentified"]

-----------------------------------------------------------------------------
(* Names handed to the identity check                                      *)

MariaSilva == <<"M","a","r","i","a"," ","S","i","l","v","a">>
Maria == <<"M","a","r","i","a">>
MariaSilvaPadded == <<"m","a","r","i","a"," ","s","i","l","v","a"," ">>
SilvaMaria == <<"S","i","l","v","a"," ","M","a","r","i","a">>
AnaSilva == <<"A","n","a"," ","S","i","l","v","a">>
Joao == <<"J","o","a","o">>
Blank == <<" ">>

Names == {<<>>, MariaSilva, Maria, MariaSilvaPadded, SilvaMaria, AnaSilva, Joao, Blank}

FaceResults == {[employee_detected |-> TRUE, employee_info |-> [name |-> n]] : n \in Names}
                   \cup {[employee_detected |-> FALSE]}

BadgeResults == {[has_valid_badge |-> TRUE, potential_name |-> n] : n \in Names}
                    \cup {[has_valid_badge |-> FALSE]}

InitIdentity ==
    /\ StoreIdle
    /\ call \in {[op |-> "_check_identity_consistency", analyses |-> [face |-> f, badge |-> b]]
                 : f \in FaceResults, b \in BadgeResults}
              \cup {[op |-> "_calculate_name_similarity", name1 |-> n1, name2 |-> n2]
                    : n1 \in Names, n2 \in Names}
    /\ ret = NotReturned

CalculateNameSimilarityCall ==
    /\ call.op = "_calculate_name_similarity"
    /\ ret = NotReturned
    /\ ret' = Returned(CalculateNameSimilarity(call.name1, call.name2))
    /\ UNCHANGED <<detections_table, temporal_patterns, analysis_history, clock, call>>

CheckIdentityConsistencyCall ==
    /\ call.op = "_check_identity_consistency"
    /\ ret = NotReturned
    /\ ret' = CheckIdentityConsistency(call.analyses)
    /\ UNCHANGED <<detections_table, temporal_patterns, analysis_history, clock, call>>

NextIdentity == CalculateNameSimilarityCall \/ CheckIdentityConsistencyCall

SpecIdentity == InitIdentity /\ [][NextIdentity]_vars

\* names with letters lower-cased and surrounding blanks removed
C5_Normal(name) ==
    LET l == Lower(name)
        inner == {i \in 1..Len(l) : l[i] # " "}
    IN IF inner = {} THEN <<>>
       ELSE SubSeq(l, CHOOSE i \in inner : \A j \in inner : i <= j,
                      CHOOSE i \in inner : \A j \in inner : i >= j)

C5_Similarity10(name1, name2) ==
    LET n1 == C5_Normal(name1)
        n2 == C5_Normal(name2)
    IN IF n1 = n2 THEN 10
       ELSE IF Contains(n1, n2) \/ Contains(n2, n1) THEN 8
       ELSE IF \E w \in Words(n1) : w \in Words(n2) THEN 6
       ELSE 0

C5_FaceName == IF "employee_info" \in DOMAIN call.analyses.face
               THEN call.analyses.face.employee_info.name ELSE <<>>

C5_BadgeName == IF "potential_name" \in DOMAIN call.analyses.badge
                THEN call.analyses.badge.potential_name ELSE <<>>

\* C5: similarity is 1.0 / 0.8 / 0.6 / 0.0 for equal / containing / word-sharing /
\* other names; with both names present the status is verified (face_badge_match
\* true) iff similarity > 0.8 and mismatch otherwise; with exactly one present it
\* is partial; with neither it is unidentified.
C5_IdentityConsistency ==
    /\ (call.op = "_calculate_name_similarity" /\ ret # NotReturned) =>
          ret.value = C5_Similarity10(call.name1, call.name2)
    /\ (call.op = "_check_identity_consistency" /\ ret # NotReturned) =>
          LET f == C5_FaceName
              b == C5_BadgeName
          IN /\ (f # <<>> /\ b # <<>>) =>
                   /\ (ret.verification_status = "verified") <=> (C5_Similarity10(f, b) > 8)
                   /\ (ret.verification_status = "mismatch") <=> (C5_Similarity10(f, b) <= 8)
                   /\ ret.face_badge_match <=> (ret.verification_status = "verified")
             /\ ((f # <<>>) # (b # <<>>)) =>
                   (ret.verification_status = "partial" /\ ~ret.face_badge_match)
             /\ (f = <<>> /\ b = <<>>) =>
                   (ret.verification_status = "unidentified" /\ ~ret.face_badge_match)
             /\ (f = MariaSilva /\ b = Maria) => ret.verification_status = "mismatch"

\* "Maria Silva" against "Maria" came back as a mismatch
C5_Witness ==
    /\ call.op = "_check_identity_consistency"
    /\ ret # NotReturned
    /\ C5_FaceName = MariaSilva
    /\ C5_BadgeName = Maria
    /\ ret.verification_status = "mismatch"
    /\ ~ret.face_badge_match

-----------------------------------------------------------------------------
(* PatternAnalyzer._calculate_social_score                                 *)
(* The score is the quotient num/den.                                      *)

common_areas == <<<<"c","a","f","e">>, <<"l","u","n","c","h">>,
                  <<"m","e","e","t","i","n","g">>, <<"l","o","u","n","g","e">>,
                  <<"r","e","c","e","p","t","i","o","n">>>>

RECURSIVE CommonAreaHitsNoBreak(_, _)
CommonAreaHitsNoBreak(location, k) ==
    IF k > Len(common_areas) THEN 0
    ELSE (IF Contains(Lower(location), common_areas[k]) THEN 1 ELSE 0)
         + CommonAreaHitsNoBreak(location, k + 1)

\* for area in common_areas: if area in location.lower(): += 1; break
RECURSIVE CommonAreaHits(_, _)
CommonAreaHits(location, k) ==
    IF k > Len(common_areas) THEN 0
    ELSE IF Contains(Lower(location), common_areas[k]) THEN 1
    ELSE CommonAreaHits(location, k + 1)

RECURSIVE CommonAreaDetections(_)
CommonAreaDetections(detections) ==
    IF detections = <<>> THEN 0
    ELSE CommonAreaHits(Head(detections).location, 1) + CommonAreaDetections(Tail(detections))

CalculateSocialScore(detections) ==
    IF Len(detections) = 0 THEN ZeroScore
    ELSE LET social_score == [num |-> CommonAreaDetections(detections), den |-> Len(detections)]
         IN IF social_score.num > social_score.den THEN [num |-> 1, den |-> 1] ELSE social_score

-----------------------------------------------------------------------------
(* Detection lists handed to _calculate_social_score                       *)

MaxSocial == 10

\* "Lunch Cafe" contains two of the keywords once lower-cased
LunchCafe == <<"L","u","n","c","h"," ","C","a","f","e">>

SocialLocations == {Office, LunchCafe}

\* detections one minute apart from 09:00 on
Visits(locs) == [i \in 1..Len(locs) |-> DetectionRecord(At(9, 0, 0) + 60 * i, <<"e","1">>, locs[i])]

VisitLists == {Visits(locs) : locs \in UNION {[1..n -> SocialLocations] : n \in 0..MaxSocial}}

InitSocial ==
    /\ StoreIdle
    /\ call \in {[op |-> "_calculate_social_score", detections |-> d] : d \in VisitLists}
    /\ ret = NotReturned

CalculateSocialScoreCall ==
    /\ call.op = "_calculate_social_score"
    /\ ret = NotReturned
    /\ ret' = Returned(CalculateSocialScore(call.detections))
    /\ UNCHANGED <<detections_table, temporal_patterns, analysis_history, clock, call>>

NextSocial == CalculateSocialScoreCall

SpecSocial == InitSocial /\ [][NextSocial]_vars

\* C6: for a non-empty list the score is (detections whose lower-cased location
\* contains a common-area keyword) / (all detections), each detection counted
\* once, hence within [0,1]; for an empty list it is 0.
C6_SocialScore ==
    (call.op = "_calculate_social_score" /\ ret # NotReturned) =>
        LET d == call.detections
            matching == {i \in 1..Len(d) :
                           \E k \in 1..Len(common_areas) :
                              Contains(Lower(d[i].location), common_areas[k])}
            score == ret.value
        IN /\ score.den > 0
           /\ score.num >= 0 /\ score.num <= score.den
           /\ IF d = <<>> THEN score.num = 0
              ELSE score.num * Len(d) = Cardinality(matching) * score.den

\* ten detections, three of them in a common area whose name matches two
\* keywords at once: the score is 3/10
C6_Witness ==
    /\ call.op = "_calculate_social_score"
    /\ ret # NotReturned
    /\ Len(call.detections) = 10
    /\ Cardinality({i \in 1..10 : call.detections[i].location = LunchCafe}) = 3
    /\ ret.value.num * 10 = 3 * ret.value.den

-----------------------------------------------------------------------------
(* Python dict and list helpers. A dict is the sequence of its entries in  *)
(* insertion order, which is the order Python iterates it in.              *)

Entry(k, v) == [key |-> k, value |-> v]

HasKey(d, k) == \E i \in 1..Len(d) : d[i].key = k

DictGet(d, k, default) ==
    IF HasKey(d, k) THEN d[CHOOSE i \in 1..Len(d) : d[i].key = k].value ELSE default

DictSet(d, k, v) ==
    IF HasKey(d, k)
    THEN [i \in 1..Len(d) |-> IF d[i].key = k THEN Entry(k, v) ELSE d[i]]
    ELSE Append(d, Entry(k, v))

\* the dict as a function of its keys, for comparing dicts as Python's == does
AsMap(d) == [k \in {d[i].key : i \in 1..Len(d)} |-> DictGet(d, k, 0)]

\* for k in keys: counts[k] += 1, on a defaultdict(int)
RECURSIVE Tally(_, _)
Tally(keys, counts) ==
    IF keys = <<>> THEN counts
    ELSE Tally(Tail(keys), DictSet(counts, Head(keys), DictGet(counts, Head(keys), 0) + 1))

\* [f(x) for x in seq]
Map(seq, F(_)) == [i \in 1..Len(seq) |-> F(seq[i])]

RECURSIVE Sum(_)
Sum(seq) == IF seq = <<>> THEN 0 ELSE Head(seq) + Sum(Tail(seq))

RECURSIVE Flatten(_)
Flatten(seqs) == IF seqs = <<>> THEN <<>> ELSE Head(seqs) \o Flatten(Tail(seqs))

\* sorted(list, key=lambda x: x.timestamp): stable, equal timestamps keep their order
RECURSIVE InsertByTimestamp(_, _)
InsertByTimestamp(sorted, x) ==
    IF sorted = <<>> THEN <<x>>
    ELSE IF sorted[Len(sorted)].timestamp <= x.timestamp THEN Append(sorted, x)
    ELSE Append(InsertByTimestamp(SubSeq(sorted, 1, Len(sorted) - 1), x), sorted[Len(sorted)])

RECURSIVE SortedByTimestampFrom(_, _)
SortedByTimestampFrom(list, sorted) ==
    IF list = <<>> THEN sorted
    ELSE SortedByTimestampFrom(Tail(list), InsertByTimestamp(sorted, Head(list)))

SortedByTimestamp(list) == SortedByTimestampFrom(list, <<>>)

\* sorted(list of int)
RECURSIVE SortedInts(_)
SortedInts(set) ==
    IF set = {} THEN <<>>
    ELSE LET least == CHOOSE x \in set : \A y \in set : x <= y
         IN <<least>> \o SortedInts(set \ {least})

-----------------------------------------------------------------------------
(* PatternAnalyzer._analyze_temporal_patterns                              *)
(* Hours of presence are the quotient num/den.                             *)

\* daily_detections[day_key].append(detection), day_key the ISO date
RECURSIVE GroupByDay(_, _)
GroupByDay(detections, daily_detections) ==
    IF detections = <<>> THEN daily_detections
    ELSE LET day_key == DateIso(DateOf(Head(detections).timestamp))
         IN GroupByDay(Tail(detections),
                       DictSet(daily_detections, day_key,
                               Append(DictGet(daily_detections, day_key, <<>>), Head(detections))))

\* hourly_count[detection.timestamp.hour] += 1
CalculateHourlyActivity(day_detections) ==
    Tally(Map(day_detections, LAMBDA det : HourOf(det.timestamp)), <<>>)

RECURSIVE TotalHourly(_, _)
TotalHourly(daily_patterns, total_hourly) ==
    IF daily_patterns = <<>> THEN total_hourly
    ELSE LET day_pattern == Head(daily_patterns).value
             Add(total, i) == DictSet(total, day_pattern[i].key,
                                      DictGet(total, day_pattern[i].key, 0) + day_pattern[i].value)
             AddAll[i \in 0..Len(day_pattern)] ==
                 IF i = 0 THEN total_hourly ELSE Add(AddAll[i - 1], i)
         IN TotalHourly(Tail(daily_patterns), AddAll[Len(day_pattern)])

\* hours whose count > avg_activity * 1.5, avg_activity = sum / len
IdentifyPeakHours(daily_patterns) ==
    LET total_hourly == TotalHourly(daily_patterns, <<>>)
        total == Sum(Map(total_hourly, LAMBDA e : e.value))
    IN IF total_hourly = <<>> THEN <<>>
       ELSE SortedInts({total_hourly[i].key : i \in
                           {j \in 1..Len(total_hourly) :
                               2 * total_hourly[j].value * Len(total_hourly) > 3 * total}})

AnalyzeTemporalPatterns(detections) ==
    LET days == GroupByDay(detections, <<>>)
        Day(i) == SortedByTimestamp(days[i].value)
        full == SelectSeq([i \in 1..Len(days) |-> Entry(days[i].key, Day(i))],
                          LAMBDA e : Len(e.value) >= 2)
        lunches == [i \in 1..Len(days) |-> DetectLunchBreak(Day(i))]
        daily_patterns == [i \in 1..Len(days) |-> Entry(days[i].key, CalculateHourlyActivity(Day(i)))]
    IN [arrival_times |-> Map(full, LAMBDA e : StrftimeHM(e.value[1].timestamp)),
        departure_times |-> Map(full, LAMBDA e : StrftimeHM(e.value[Len(e.value)].timestamp)),
        lunch_times |-> SelectSeq(lunches, LAMBDA l : l # None),
        peak_activity_hours |-> IF daily_patterns # <<>> THEN IdentifyPeakHours(daily_patterns) ELSE <<>>,
        presence_duration |->
            Map(full, LAMBDA e : Entry(e.key, [num |-> e.value[Len(e.value)].timestamp - e.value[1].timestamp,
                                               den |-> 3600])),
        daily_patterns |-> daily_patterns]

-----------------------------------------------------------------------------
(* PatternAnalyzer._analyze_spatial_patterns                               *)
(* Minutes are the quotient num/den of seconds by 60.                      *)

NoLocation == <<"None">>

\* walk of _calculate_time_per_location: location_times[current_location].append(duration)
RECURSIVE LocationTimes(_, _, _, _)
LocationTimes(detections, current_location, start_time, location_times) ==
    IF detections = <<>> THEN location_times
    ELSE LET detection == Head(detections)
         IN IF current_location # detection.location
            THEN LocationTimes(Tail(detections), detection.location, detection.timestamp,
                     IF current_location # NoLocation /\ current_location # <<>> /\ start_time # NoTime
                     THEN DictSet(location_times, current_location,
                                  Append(DictGet(location_times, current_location, <<>>),
                                         detection.timestamp - start_time))
                     ELSE location_times)
            ELSE LocationTimes(Tail(detections), current_location, start_time, location_times)

\* avg_times[location] = sum(times) / len(times), times in minutes
CalculateTimePerLocation(detections) ==
    LET location_times == LocationTimes(SortedByTimestamp(detections), NoLocation, NoTime, <<>>)
    IN Map(location_times,
           LAMBDA e : Entry(e.key, [num |-> Sum(e.value), den |-> 60 * Len(e.value)]))

IsSameSequenceUpTo1h(gap_seconds) == gap_seconds =< 3600

\* (detection.timestamp - current_sequence[-1].timestamp).total_seconds() < 3600
IsSameSequence(gap_seconds) == gap_seconds < 3600

\* sequences of _identify_typical_routes: a gap of an hour or more starts a new one
RECURSIVE RouteSequences(_, _, _)
RouteSequences(detections, current_sequence, sequences) ==
    IF detections = <<>>
    THEN IF Len(current_sequence) >= 3 THEN Append(sequences, current_sequence) ELSE sequences
    ELSE LET detection == Head(detections)
         IN IF current_sequence = <<>>
               \/ IsSameSequence(detection.timestamp
                                 - current_sequence[Len(current_sequence)].timestamp)
            THEN RouteSequences(Tail(detections), Append(current_sequence, detection), sequences)
            ELSE RouteSequences(Tail(detections), <<detection>>,
                                IF Len(current_sequence) >= 3
                                THEN Append(sequences, current_sequence) ELSE sequences)

\* str.split(sep)
RECURSIVE SplitOn(_, _, _)
SplitOn(s, sep, word) ==
    IF s = <<>> THEN <<word>>
    ELSE IF Len(s) >= Len(sep) /\ SubSeq(s, 1, Len(sep)) = sep
    THEN <<word>> \o SplitOn(SubSeq(s, Len(sep) + 1, Len(s)), sep, <<>>)
    ELSE SplitOn(Tail(s), sep, Append(word, Head(s)))

\* sorted(items, key=lambda x: x[1], reverse=True): stable, by frequency descending
RECURSIVE InsertByFrequency(_, _)
InsertByFrequency(sorted, x) ==
    IF sorted = <<>> THEN <<x>>
    ELSE IF sorted[Len(sorted)].value >= x.value THEN Append(sorted, x)
    ELSE Append(InsertByFrequency(SubSeq(sorted, 1, Len(sorted) - 1), x), sorted[Len(sorted)])

RECURSIVE SortedByFrequencyFrom(_, _)
SortedByFrequencyFrom(items, sorted) ==
    IF items = <<>> THEN sorted
    ELSE SortedByFrequencyFrom(Tail(items), InsertByFrequency(sorted, Head(items)))

IdentifyTypicalRoutes(detections) ==
    LET sequences == RouteSequences(SortedByTimestamp(detections), <<>>, <<>>)
        route_patterns ==
            Tally(Map(sequences,
                      LAMBDA sequence : Join(Arrow, Map(sequence, LAMBDA det : det.location))),
                  <<>>)
        frequent == SelectSeq(SortedByFrequencyFrom(route_patterns, <<>>), LAMBDA e : e.value >= 2)
        routes == Map(frequent,
                      LAMBDA e : [route |-> e.key, frequency |-> e.value,
                                  locations |-> SplitOn(e.key, Arrow, <<>>)])
    IN SubSeq(routes, 1, Min(10, Len(routes)))

\* transitions[f"{from_loc} -> {to_loc}"] += 1 for consecutive distinct locations
LocationTransitions(detections) ==
    LET changes == SelectSeq([i \in 1..(Len(detections) - 1) |-> i],
                             LAMBDA i : detections[i].location # detections[i + 1].location)
    IN Tally(Map(changes,
                 LAMBDA i : detections[i].location \o Arrow \o detections[i + 1].location),
             <<>>)

AnalyzeSpatialPatterns(detections) ==
    IF detections = <<>>
    THEN [frequent_locations |-> <<>>, location_transitions |-> <<>>, typical_routes |-> <<>>,
          time_spent_per_location |-> <<>>, area_preferences |-> <<>>]
    ELSE [frequent_locations |-> Tally(Map(detections, LAMBDA det : det.location), <<>>),
          location_transitions |-> LocationTransitions(detections),
          typical_routes |-> IdentifyTypicalRoutes(detections),
          time_spent_per_location |-> CalculateTimePerLocation(detections),
          area_preferences |-> <<>>]

-----------------------------------------------------------------------------
(* PatternAnalyzer._detect_pattern_anomalies and its checks                *)

UnusualHourSeverityFrom5(hour) ==
    IF (22 < hour /\ hour < 24) \/ (4 < hour /\ hour < 6) THEN "medium" ELSE "high"

\* 'medium' if 22 < hour < 24 or 5 < hour < 6 else 'high'
UnusualHourSeverity(hour) ==
    IF (22 < hour /\ hour < 24) \/ (5 < hour /\ hour < 6) THEN "medium" ELSE "high"

DetectUnusualHours(detections) ==
    Map(SelectSeq(detections, LAMBDA det : HourOf(det.timestamp) < 6 \/ HourOf(det.timestamp) > 22),
        LAMBDA det : [type |-> "unusual_hour_presence",
                      severity |-> UnusualHourSeverity(HourOf(det.timestamp)),
                      description |-> [text |-> "Presenca em horario incomum",
                                       value |-> TwoDigits(HourOf(det.timestamp))],
                      timestamp |-> IsoFormat(det.timestamp),
                      location |-> det.location,
                      hour |-> HourOf(det.timestamp)])

IsExcessiveFrom4h(avg_time_minutes) == avg_time_minutes.num >= 4 * 60 * avg_time_minutes.den

\* avg_time_minutes > threshold_hours * 60, threshold_hours = 4
IsExcessive(avg_time_minutes) == avg_time_minutes.num > 4 * 60 * avg_time_minutes.den

DetectExcessiveLocationTime(detections) ==
    Map(SelectSeq(CalculateTimePerLocation(detections), LAMBDA e : IsExcessive(e.value)),
        LAMBDA e : [type |-> "excessive_location_time",
                    severity |-> "medium",
                    description |-> [text |-> "Tempo excessivo", value |-> e.key],
                    location |-> e.key,
                    duration_minutes |-> e.value,
                    threshold_hours |-> 4])

\* intervals between consecutive detections, in seconds
Intervals(detections) ==
    [i \in 1..(Len(detections) - 1) |-> detections[i + 1].timestamp - detections[i].timestamp]

MaxOf(seq) == CHOOSE x \in {seq[i] : i \in 1..Len(seq)} : \A i \in 1..Len(seq) : seq[i] <= x
MinOf(seq) == CHOOSE x \in {seq[i] : i \in 1..Len(seq)} : \A i \in 1..Len(seq) : seq[i] >= x

IsLargeGapFrom180(max_interval) == max_interval >= 180 * 60

\* max_interval > 180, the interval being kept in seconds
IsLargeGap(max_interval) == max_interval > 180 * 60

DetectFrequencyAnomaly(detections) ==
    IF Len(detections) < 2 THEN None
    ELSE LET intervals == Intervals(detections)
             avg_interval == [num |-> Sum(intervals), den |-> 60 * Len(intervals)]
             max_interval == MaxOf(intervals)
             min_interval == MinOf(intervals)
         IN IF IsLargeGap(max_interval)
            THEN [type |-> "large_detection_gap",
                  severity |-> "low",
                  description |-> [text |-> "Gap grande entre deteccoes", value |-> max_interval],
                  max_interval_minutes |-> [num |-> max_interval, den |-> 60],
                  average_interval_minutes |-> avg_interval]
            ELSE IF min_interval < 1 * 60
            THEN [type |-> "high_detection_frequency",
                  severity |-> "low",
                  description |-> [text |-> "Deteccoes muito frequentes", value |-> min_interval],
                  min_interval_minutes |-> [num |-> min_interval, den |-> 60],
                  average_interval_minutes |-> avg_interval]
            ELSE None

DetectPatternAnomalies(detections, employee_id) ==
    LET frequency_anomaly == DetectFrequencyAnomaly(detections)
    IN DetectUnusualHours(detections)
       \o DetectExcessiveLocationTime(detections)
       \o DetectUnusualLocationSequence(detections)
       \o (IF frequency_anomaly # None THEN <<frequency_anomaly>> ELSE <<>>)

\* PatternAnalyzer._analyze_restricted_access: one anomaly per detection and per
\* restricted area whose lower-cased name the lower-cased location contains
AnalyzeRestrictedAccess(detections) ==
    Flatten(Map(detections,
        LAMBDA det :
            Map(SelectSeq(restricted_areas,
                          LAMBDA restricted_area : Contains(Lower(det.location), Lower(restricted_area))),
                LAMBDA restricted_area :
                    [type |-> "restricted_area_access",
                     severity |-> "high",
                     description |-> [text |-> "Acesso a area restrita", value |-> det.location],
                     location |-> det.location,
                     timestamp |-> IsoFormat(det.timestamp),
                     restricted_area |-> restricted_area,
                     confidence |-> det.confidence])))

-----------------------------------------------------------------------------
(* PatternAnalyzer._analyze_social_patterns                                *)

\* gaps of more than 120 minutes; 'medium' if gap > 240 else 'low'
DetectIsolationPeriods(detections) ==
    Map(SelectSeq([i \in 1..(Len(detections) - 1) |-> i],
                  LAMBDA i : detections[i + 1].timestamp - detections[i].timestamp > 120 * 60),
        LAMBDA i : [start_time |-> IsoFormat(detections[i].timestamp),
                    end_time |-> IsoFormat(detections[i + 1].timestamp),
                    duration_minutes |-> [num |-> detections[i + 1].timestamp - detections[i].timestamp,
                                          den |-> 60],
                    severity |-> IF detections[i + 1].timestamp - detections[i].timestamp > 240 * 60
                                 THEN "medium" ELSE "low"])

AnalyzeSocialPatterns(detections) ==
    [concurrent_presences |-> <<>>,
     isolation_periods |-> DetectIsolationPeriods(detections),
     group_formations |-> <<>>,
     social_score |-> CalculateSocialScore(detections)]

-----------------------------------------------------------------------------
(* PatternAnalyzer._detect_behavioral_changes and its comparisons          *)
(* Means are exact quotients; numpy's float rounding is not modelled.      *)

lunch_time_variance_threshold == 30

Abs(x) == IF x < 0 THEN -x ELSE x

DigitValue(c) == (CHOOSE i \in 1..Len(Digits) : Digits[i] = c) - 1

\* int(str)
RECURSIVE ParseInt(_, _)
ParseInt(s, acc) == IF s = <<>> THEN acc ELSE ParseInt(Tail(s), 10 * acc + DigitValue(Head(s)))

\* h, m = map(int, time_str.split(':')); h * 60 + m
TimeToMinutes(time_str) ==
    LET parts == SplitOn(time_str, <<":">>, <<>>)
    IN ParseInt(parts[1], 0) * 60 + ParseInt(parts[2], 0)

\* f"{int(avg // 60):02d}:{int(avg % 60):02d}" of avg = total / count
FormatAverage(total, count) ==
    LET hours == total \div (60 * count)
    IN TwoDigits(hours) \o <<":">> \o TwoDigits((total - 60 * hours * count) \div count)

DetectTimePatternChange(recent_times, historical_times, pattern_type) ==
    IF recent_times = <<>> \/ historical_times = <<>> THEN None
    ELSE LET recent_total == Sum(Map(recent_times, TimeToMinutes))
             historical_total == Sum(Map(historical_times, TimeToMinutes))
             \* diff_minutes = diff_num / diff_den
             diff_num == Abs(recent_total * Len(historical_times)
                             - historical_total * Len(recent_times))
             diff_den == Len(recent_times) * Len(historical_times)
             threshold == lunch_time_variance_threshold
         IN IF diff_num > threshold * diff_den
            THEN [type |-> pattern_type \o "_change",
                  severity |-> IF diff_num < threshold * 2 * diff_den THEN "medium" ELSE "high",
                  description |-> [text |-> "Mudanca significativa no horario", value |-> pattern_type],
                  recent_average |-> FormatAverage(recent_total, Len(recent_times)),
                  historical_average |-> FormatAverage(historical_total, Len(historical_times)),
                  difference_minutes |-> diff_num \div diff_den]
            ELSE None

DetectLunchPatternChange(recent_lunches, historical_lunches) ==
    IF recent_lunches = <<>> \/ historical_lunches = <<>> THEN None
    ELSE LET time_change == DetectTimePatternChange(
                                Map(recent_lunches, LAMBDA lunch : lunch.start_time),
                                Map(historical_lunches, LAMBDA lunch : lunch.start_time),
                                "lunch")
             recent_total == Sum(Map(recent_lunches, LAMBDA lunch : Get(lunch, "duration_minutes", 0)))
             historical_total ==
                 Sum(Map(historical_lunches, LAMBDA lunch : Get(lunch, "duration_minutes", 0)))
         IN IF time_change # None
            THEN time_change @@
                 [recent_avg_duration |-> recent_total \div Len(recent_lunches),
                  historical_avg_duration |-> historical_total \div Len(historical_lunches),
                  duration_change |->
                      Abs(recent_total * Len(historical_lunches)
                          - historical_total * Len(recent_lunches))
                      \div (Len(recent_lunches) * Len(historical_lunches))]
            ELSE time_change

\* the entries of significant_changes; the list follows the iteration order of a
\* Python set of strings, which is not fixed, so it is kept as a set
SignificantChanges(recent_locations, historical_locations) ==
    LET recent_total == Sum(Map(recent_locations, LAMBDA e : e.value))
        historical_total == Sum(Map(historical_locations, LAMBDA e : e.value))
        all_locations == {recent_locations[i].key : i \in 1..Len(recent_locations)}
                             \cup {historical_locations[i].key : i \in 1..Len(historical_locations)}
        \* recent_p - historical_p = Delta(location) / (recent_total * historical_total)
        Delta(location) == DictGet(recent_locations, location, 0) * historical_total
                               - DictGet(historical_locations, location, 0) * recent_total
    IN {[location |-> location,
         change_type |-> IF Delta(location) > 0 THEN "increase" ELSE "decrease",
         difference_pct |-> [num |-> 100 * Abs(Delta(location)),
                             den |-> recent_total * historical_total],
         recent_pct |-> [num |-> 100 * DictGet(recent_locations, location, 0), den |-> recent_total],
         historical_pct |-> [num |-> 100 * DictGet(historical_locations, location, 0),
                             den |-> historical_total]]
        : location \in {l \in all_locations :
                          5 * Abs(Delta(l)) > recent_total * historical_total}}

DetectLocationPatternChange(recent_locations, historical_locations) ==
    IF recent_locations = <<>> \/ historical_locations = <<>> THEN None
    ELSE LET significant_changes == SignificantChanges(recent_locations, historical_locations)
         IN IF significant_changes # {}
            THEN [type |-> "location_pattern_change",
                  severity |-> "medium",
                  description |-> [text |-> "Mudanca significativa nos locais frequentados"],
                  changes |-> significant_changes]
            ELSE None

\* historical_patterns maps a pattern type to the LIST of its rows, so
\* historical_patterns.get(type, {}).get('data', {}) raises AttributeError when
\* the type is present; the except clause then returns the changes found so far
DetectBehavioralChanges(recent_detections, historical_patterns) ==
    IF "temporal" \in DOMAIN historical_patterns \/ "spatial" \in DOMAIN historical_patterns
    THEN <<>>
    ELSE LET recent_temporal == AnalyzeTemporalPatterns(recent_detections)
             recent_spatial == AnalyzeSpatialPatterns(recent_detections)
             \* both are {}: every .get on them returns its default
             arrival_change == DetectTimePatternChange(recent_temporal.arrival_times, <<>>,
                                                       "arrival_time")
             lunch_change == DetectLunchPatternChange(recent_temporal.lunch_times, <<>>)
             location_change == DetectLocationPatternChange(recent_spatial.frequent_locations, <<>>)
         IN (IF arrival_change # None THEN <<arrival_change>> ELSE <<>>)
            \o (IF lunch_change # None THEN <<lunch_change>> ELSE <<>>)
            \o (IF location_change # None THEN <<location_change>> ELSE <<>>)

-----------------------------------------------------------------------------
(* PatternAnalyzer._generate_recommendations                               *)

\* 'unusual_hour' in type, over the type names the analyzer emits
MentionsUnusualHour(type) == type = "unusual_hour_presence"

GenerateRecommendations(analysis_results) ==
    LET risk_level == Get(Get(analysis_results, "risk_assessment", EmptyDict),
                          "overall_risk_level", "low")
        anomalies == Get(analysis_results, "anomalies", <<>>)
        changes == Get(analysis_results, "behavioral_changes", <<>>)
        recommendations ==
            (IF risk_level \in {"high", "critical"}
             THEN <<"Aumentar frequencia de monitoramento", "Revisar permissoes de acesso">>
             ELSE <<>>)
            \o (IF RestrictedAccesses(anomalies) # <<>>
                THEN <<"Verificar autorizacao para areas restritas",
                       "Implementar autenticacao adicional">>
                ELSE <<>>)
            \o (IF SelectSeq(anomalies, LAMBDA a : MentionsUnusualHour(Get(a, "type", ""))) # <<>>
                THEN <<"Investigar motivo da presenca fora do horario",
                       "Considerar ajustes no controle de acesso">>
                ELSE <<>>)
            \o (IF changes # <<>>
                THEN <<"Verificar possiveis mudancas na funcao/projeto",
                       "Considerar conversa com o funcionario">>
                ELSE <<>>)
    IN IF recommendations = <<>>
       THEN <<"Manter monitoramento de rotina", "Continuar analise de padroes">>
       ELSE recommendations

-----------------------------------------------------------------------------
(* The Cassandra store: add_detection and the two queries of              *)
(* analyze_patterns. A table is the sequence of its rows in the order a    *)
(* SELECT returns them. An employee_id of None and one of '' are both      *)
(* falsy and only that is read, so both are the empty string.              *)

NoEmployee == <<>>

\* a value of detection_data['timestamp']: a datetime, or its ISO string
Datetime(ts) == [datetime |-> ts]
IsoString(ts) == [str |-> IsoFormat(ts)]

\* isinstance(value, datetime): only a datetime has .date()
IsDatetime(value) == "datetime" \in DOMAIN value

\* an add_detection that refuses a record with no location
AddDetectionRowsLocationRequired(rows, now, detection_data, store_up) ==
    IF store_up /\ "location" \in DOMAIN detection_data /\ "timestamp" \in DOMAIN detection_data
       /\ IsDatetime(detection_data.timestamp)
    THEN Append(rows, DetectionRecordWith(detection_data.timestamp.datetime,
                                          Get(detection_data, "employee_id", <<>>),
                                          detection_data.location,
                                          Get(detection_data, "confidence", 0)))
    ELSE rows

\* try: ... session.execute(insert_detection, (record.timestamp.date(), ...));
\* return True / except Exception: return False.  The rows after the call.
AddDetectionRows(rows, now, detection_data, store_up) ==
    LET timestamp == IF "timestamp" \in DOMAIN detection_data
                     THEN detection_data.timestamp ELSE Datetime(now)
        record == DetectionRecordWith(timestamp.datetime,
                                      Get(detection_data, "employee_id", <<>>),
                                      Get(detection_data, "location", <<>>),
                                      Get(detection_data, "confidence", 0))
    IN IF store_up /\ IsDatetime(timestamp) THEN Append(rows, record) ELSE rows

\* True exactly when the insert was executed
AddDetectionResult(now, detection_data, store_up) ==
    LET timestamp == IF "timestamp" \in DOMAIN detection_data
                     THEN detection_data.timestamp ELSE Datetime(now)
    IN store_up /\ IsDatetime(timestamp)

\* a window that starts at the instant start_date, not on its date
GetRecentDetectionsFromInstant(rows, now, employee_id, hours, store_up) ==
    IF ~store_up THEN <<>>
    ELSE SortedByTimestamp(
             SelectSeq(rows,
                 LAMBDA row :
                     /\ row.timestamp >= now - hours * 3600
                     /\ DateOf(row.timestamp) <= DateOf(now)
                     /\ (employee_id # <<>> => row.employee_id = employee_id)))

\* a query that drops the employee_id condition
GetRecentDetectionsOfAnyone(rows, now, employee_id, hours, store_up) ==
    IF ~store_up THEN <<>>
    ELSE SortedByTimestamp(
             SelectSeq(rows,
                 LAMBDA row :
                     /\ DateOf(row.timestamp) >= DateOf(now - hours * 3600)
                     /\ DateOf(row.timestamp) <= DateOf(now)))

GetRecentDetections(rows, now, employee_id, hours, store_up) ==
    IF ~store_up THEN <<>>
    ELSE LET end_date == now
             start_date == end_date - hours * 3600
         IN SortedByTimestamp(
                SelectSeq(rows,
                    LAMBDA row :
                        /\ DateOf(row.timestamp) >= DateOf(start_date)
                        /\ DateOf(row.timestamp) <= DateOf(end_date)
                        /\ (employee_id # <<>> => row.employee_id = employee_id)))

\* patterns[pattern_type] is the list of the employee's rows of the last 30 days;
\* only pattern type 'temporal' is ever written
GetHistoricalPatterns(patterns, now, employee_id, store_up) ==
    IF employee_id = <<>> \/ ~store_up THEN EmptyDict
    ELSE LET end_date == DateOf(now)
             start_date == end_date - 30
             found == SelectSeq(patterns,
                          LAMBDA row : /\ row.employee_id = employee_id
                                       /\ row.pattern_date >= start_date
                                       /\ row.pattern_date <= end_date)
         IN IF found = <<>> THEN EmptyDict
            ELSE [temporal |-> Map(found, LAMBDA row : [date |-> row.pattern_date,
                                                        data |-> row.pattern_data,
                                                        confidence |-> row.confidence])]

-----------------------------------------------------------------------------
(* PatternAnalyzer.analyze_patterns                                        *)

NoDetectionsError == [kind |-> "analysis", error |-> "Sem deteccoes no periodo especificado"]

\* analyze_patterns from the temporal analysis on, for detections that are not
\* empty and the behavioral changes _detect_behavioral_changes returned
AnalyzeDetections(recent_detections, behavioral_changes, employee_id) ==
    LET temporal_analysis == AnalyzeTemporalPatterns(recent_detections)
        spatial_analysis == AnalyzeSpatialPatterns(recent_detections)
        anomalies == DetectPatternAnomalies(recent_detections, employee_id)
        social_patterns == AnalyzeSocialPatterns(recent_detections)
        risk_assessment == AssessBehavioralRisk([temporal |-> temporal_analysis,
                                                 spatial |-> spatial_analysis,
                                                 changes |-> behavioral_changes,
                                                 anomalies |-> anomalies,
                                                 social |-> social_patterns])
        recommendations == GenerateRecommendations([risk |-> risk_assessment,
                                                    changes |-> behavioral_changes,
                                                    anomalies |-> anomalies])
    IN [kind |-> "analysis",
        temporal_patterns |-> temporal_analysis,
        spatial_patterns |-> spatial_analysis,
        behavioral_changes |-> behavioral_changes,
        anomalies |-> anomalies,
        social_patterns |-> social_patterns,
        risk_assessment |-> risk_assessment,
        recommendations |-> recommendations]

AnalyzePatterns(rows, patterns, now, employee_id, time_window_hours, store_up) ==
    LET recent_detections == GetRecentDetections(rows, now, employee_id, time_window_hours, store_up)
    IN IF recent_detections = <<>> THEN NoDetectionsError
       ELSE AnalyzeDetections(recent_detections,
                              DetectBehavioralChanges(
                                  recent_detections,
                                  GetHistoricalPatterns(patterns, now, employee_id, store_up)),
                              employee_id)

-----------------------------------------------------------------------------
(* The analyzer over its store: detections are added, time passes, and    *)
(* analyses are run. Nothing calls _update_employee_patterns, the only     *)
(* writer of temporal_patterns, so that table stays empty.                 *)

MaxRows == 2
MaxDays == 1

\* the clock starts on 2024-01-02 at 10:00 and moves a day at a time
Clock0 == 86400 + At(10, 0, 0)

Employee1 == <<"e","1">>
Employee2 == <<"e","2">>

\* 2024-01-01 09:00 is more than 24 hours before Clock0, on the day that window
\* starts, and outside the window once a day has passed
AddTimes == {At(9, 0, 0), Clock0}

TimestampFields == {[timestamp |-> Datetime(ts)] : ts \in AddTimes}
                       \cup {[timestamp |-> IsoString(Clock0)], EmptyDict}
LocationFields == {[location |-> Office], [location |-> ServerRoom], EmptyDict}

\* a dict holding the entries of the three
Merge(a, b, c) ==
    [k \in ((DOMAIN a \cup DOMAIN b) \cup DOMAIN c) \ {"none"} |->
        IF k \in DOMAIN a THEN a[k] ELSE IF k \in DOMAIN b THEN b[k] ELSE c[k]]

\* every combination of timestamp and location for one employee, and one
\* detection of a second employee
DetectionData ==
    {Merge(t, l, [employee_id |-> Employee1, confidence |-> 90])
        : t \in TimestampFields, l \in LocationFields}
    \cup {[timestamp |-> Datetime(Clock0), location |-> Office, employee_id |-> Employee2]}

Init ==
    /\ detections_table = <<>>
    /\ temporal_patterns = <<>>
    /\ clock = Clock0
    /\ analysis_history = <<>>
    /\ call = [op |-> "none"]
    /\ ret = NotReturned

AddDetectionCall ==
    \E detection_data \in DetectionData, store_up \in BOOLEAN :
        /\ Len(detections_table) < MaxRows
        /\ call' = [op |-> "add_detection", detection_data |-> detection_data,
                    store_up |-> store_up, now |-> clock]
        /\ detections_table' = AddDetectionRows(detections_table, clock, detection_data, store_up)
        /\ ret' = Returned(AddDetectionResult(clock, detection_data, store_up))
        /\ UNCHANGED <<temporal_patterns, analysis_history, clock>>

AnalyzePatternsCall ==
    \E employee_id \in {NoEmployee, Employee1, Employee2}, store_up \in BOOLEAN :
        /\ call' = [op |-> "analyze_patterns", employee_id |-> employee_id,
                    time_window_hours |-> 24, store_up |-> store_up, now |-> clock]
        /\ ret' = AnalyzePatterns(detections_table, temporal_patterns, clock,
                                  employee_id, 24, store_up)
        /\ UNCHANGED <<detections_table, temporal_patterns, analysis_history, clock>>

Tick ==
    /\ clock < Clock0 + MaxDays * 86400
    /\ clock' = clock + 86400
    /\ UNCHANGED <<detections_table, temporal_patterns, analysis_history, call, ret>>

Next == AddDetectionCall \/ AnalyzePatternsCall \/ Tick

Spec == Init /\ [][Next]_vars

-----------------------------------------------------------------------------
(* Claims about analyze_patterns and add_detection over the store          *)

RowOrders(n) == {p \in [1..n -> 1..n] : \A i, j \in 1..n : p[i] = p[j] => i = j}

Permuted(rows, p) == [i \in 1..Len(rows) |-> rows[p[i]]]

\* the mined sections of a result, each dict as the map Python's == compares
Mined(result) ==
    IF "error" \in DOMAIN result THEN [error |-> result.error]
    ELSE [temporal |->
              [arrival_times |-> result.temporal_patterns.arrival_times,
               departure_times |-> result.temporal_patterns.departure_times,
               lunch_times |-> result.temporal_patterns.lunch_times,
               peak_activity_hours |-> result.temporal_patterns.peak_activity_hours,
               presence_duration |-> AsMap(result.temporal_patterns.presence_duration),
               daily_patterns |-> AsMap(Map(result.temporal_patterns.daily_patterns,
                                            LAMBDA e : Entry(e.key, AsMap(e.value))))],
          spatial |->
              [frequent_locations |-> AsMap(result.spatial_patterns.frequent_locations),
               location_transitions |-> AsMap(result.spatial_patterns.location_transitions),
               typical_routes |-> result.spatial_patterns.typical_routes,
               time_spent_per_location |-> AsMap(result.spatial_patterns.time_spent_per_location)],
          anomalies |-> result.anomalies,
          social |-> result.social_patterns]

\* C7: whatever the order in which the store holds the detections, detections
\* sharing a timestamp included, analyze_patterns returns the same temporal
\* patterns, spatial patterns, anomalies and social patterns
C7_OrderIndependent ==
    call.op = "analyze_patterns" =>
        \A p \in RowOrders(Len(detections_table)) :
            Mined(AnalyzePatterns(Permuted(detections_table, p), temporal_patterns, call.now,
                                  call.employee_id, call.time_window_hours, call.store_up))
                = Mined(ret)

AnalysisSections ==
    {"temporal_patterns", "spatial_patterns", "behavioral_changes", "anomalies",
     "social_patterns", "risk_assessment", "recommendations"}

\* the rows the window of the last analyze_patterns call covers: those of the
\* subject, dated from the day the window starts to the day of the call
C8_InWindow ==
    {i \in 1..Len(detections_table) :
        /\ detections_table[i].timestamp \div 86400
               >= (call.now - call.time_window_hours * 3600) \div 86400
        /\ detections_table[i].timestamp \div 86400 <= call.now \div 86400
        /\ (call.employee_id = <<>> \/ detections_table[i].employee_id = call.employee_id)}

C9_AddStep == call'.op = "add_detection" /\ clock' = clock

C10_RestrictedAccessListed ==
    (call.op = "analyze_patterns" /\ "anomalies" \in DOMAIN ret) =>
        \A i \in C8_InWindow :
            (\E k \in 1..Len(restricted_areas) :
                Contains(Lower(detections_table[i].location), Lower(restricted_areas[k])))
            => \E a \in 1..Len(ret.anomalies) :
                   /\ ret.anomalies[a].type = "restricted_area_access"
                   /\ ret.anomalies[a].severity = "high"
                   /\ ret.anomalies[a].location = detections_table[i].location

-----------------------------------------------------------------------------
(* The window of analyze_patterns                                          *)

\* the row lies between the cutoff now - window and now
C11_InCutoff(row) ==
    /\ row.timestamp >= call.now - call.time_window_hours * 3600
    /\ row.timestamp <= call.now

\* C11: no stored detection older than now - window_hours, or later than now,
\* influences the result of analyze_patterns: the result is the one obtained
\* from the rows between the cutoff and now alone
C11_WindowCutoff ==
    call.op = "analyze_patterns" =>
        ret = AnalyzePatterns(SelectSeq(detections_table, C11_InCutoff), temporal_patterns,
                              call.now, call.employee_id, call.time_window_hours, call.store_up)

-----------------------------------------------------------------------------
(* Subject isolation                                                       *)

\* the stored detections of a subject, in row order
C12_RowsOf(rows, employee_id) == SelectSeq(rows, LAMBDA row : row.employee_id = employee_id)

C12_Subjects == {Employee1, Employee2}

\* an add_detection for one subject leaves the stored detections of every other
\* subject as they were
C12_AddKeepsOthers ==
    C9_AddStep =>
        \A employee_id \in C12_Subjects :
            Get(call'.detection_data, "employee_id", <<>>) # employee_id
                => C12_RowsOf(detections_table', employee_id)
                       = C12_RowsOf(detections_table, employee_id)

\* the result of an analysis of a subject is the one its own detections give
C12_OwnRowsOnly ==
    (call.op = "analyze_patterns" /\ call.employee_id \in C12_Subjects) =>
        ret = AnalyzePatterns(C12_RowsOf(detections_table, call.employee_id), temporal_patterns,
                              call.now, call.employee_id, call.time_window_hours, call.store_up)

\* C12: the analysis of a subject S returns the same result for any two stores
\* that agree on the records of S, being a function of the records of S alone,
\* and no add_detection for another subject changes the records of S
C12_SubjectIsolation == []C12_OwnRowsOnly /\ [][C12_AddKeepsOthers]_vars

\* a subject analysed, with sections returned, while the store also holds a
\* detection of another subject inside the window
C12_Witness ==
    /\ call.op = "analyze_patterns"
    /\ call.employee_id = Employee1
    /\ "anomalies" \in DOMAIN ret
    /\ \E i \in 1..Len(detections_table) : detections_table[i].employee_id = Employee2
    /\ \E i \in 1..Len(detections_table) : detections_table[i].employee_id = Employee1

-----------------------------------------------------------------------------
(* ScheduleAnalyzer.analyze_schedule_compliance as the correlation reads   *)
(* it: compliance_status, expected_status and anomalies. The schedule      *)
(* lookup, the expected status and the anomaly checks are its inputs.      *)

\* ScheduleAnalyzer._check_compliance; the status stays 'unknown' when the
\* insert of the check raises
CheckCompliance(expected_status, session_up) ==
    IF ~session_up
    THEN [compliance_status |-> "unknown", schedule_match |-> FALSE]
    ELSE IF expected_status = "should_be_present"
    THEN [compliance_status |-> "compliant", schedule_match |-> TRUE]
    ELSE IF expected_status = "should_be_absent"
    THEN [compliance_status |-> "non_compliant", schedule_match |-> FALSE]
    ELSE [compliance_status |-> "unknown", schedule_match |-> FALSE]

AnalyzeScheduleCompliance(has_schedule, expected_status, session_up, anomalies) ==
    IF ~has_schedule
    THEN [compliance_status |-> "unknown", expected_status |-> "unknown",
          schedule_match |-> FALSE, anomalies |-> <<>>]
    ELSE [compliance_status |-> CheckCompliance(expected_status, session_up).compliance_status,
          expected_status |-> expected_status,
          schedule_match |-> CheckCompliance(expected_status, session_up).schedule_match,
          anomalies |-> anomalies]

-----------------------------------------------------------------------------
(* BadgeAnalyzer._calculate_compliance_score, in tenths                    *)

CalculateComplianceScore(results) ==
    IF ~results.detected THEN 0
    ELSE Min(10, (IF results.has_valid_badge /\ results.badge_visible THEN 8 ELSE 3)
                 + (IF results.employee_info_extracted THEN 2 ELSE 0))

-----------------------------------------------------------------------------
(* IntegratedAnalysisSystem._identify_policy_violations                    *)

Violation(type, severity, description, policy) ==
    [type |-> type, severity |-> severity, description |-> description, policy |-> policy]

\* schedule_data.get('compliance_status') == 'violation'
IsScheduleViolation(compliance_status) == compliance_status = "violation"

\* not face_data.get('employee_detected', False) and face_data.get('detected', False)
Unidentified(face_data) ==
    ~Get(face_data, "employee_detected", FALSE) /\ Get(face_data, "detected", FALSE)

IdentifyPolicyViolations(analyses) ==
    (IF ~Get(Get(analyses, "badge", EmptyDict), "has_valid_badge", FALSE)
     THEN <<Violation("no_valid_badge", "high", "Funcionario sem cracha valido",
                      "Uso obrigatorio de cracha")>>
     ELSE <<>>)
    \o (IF IsScheduleViolation(Get(Get(analyses, "schedule", EmptyDict), "compliance_status", "None"))
        THEN <<Violation("schedule_violation", "medium", "Presenca fora do horario autorizado",
                         "Controle de acesso por horario")>>
        ELSE <<>>)
    \o (IF ~Get(Get(analyses, "attributes", EmptyDict), "dress_code_compliant", TRUE)
        THEN <<Violation("dress_code_violation", "low", "Nao conformidade com dress code",
                         "Codigo de vestimenta corporativo")>>
        ELSE <<>>)
    \o (IF Unidentified(Get(analyses, "face", EmptyDict))
        THEN <<Violation("unidentified_person", "high", "Pessoa nao identificada no sistema",
                         "Acesso restrito a funcionarios autorizados")>>
        ELSE <<>>)

-----------------------------------------------------------------------------
(* IntegratedAnalysisSystem._identify_risk_indicators                      *)

\* levels reached only above the thresholds
CorrelationRiskLevelExclusive(total_risks) ==
    IF total_risks > 6 THEN "critical"
    ELSE IF total_risks > 4 THEN "high"
    ELSE IF total_risks > 2 THEN "medium"
    ELSE "low"

\* if total_risks >= 6 ... elif >= 4 ... elif >= 2 ... else
CorrelationRiskLevel(total_risks) ==
    IF total_risks >= 6 THEN "critical"
    ELSE IF total_risks >= 4 THEN "high"
    ELSE IF total_risks >= 2 THEN "medium"
    ELSE "low"

IdentifyRiskIndicators(analyses) ==
    LET security_risks == IF Unidentified(Get(analyses, "face", EmptyDict))
                          THEN <<"Pessoa nao autorizada detectada">> ELSE <<>>
        anomalies == Get(Get(analyses, "schedule", EmptyDict), "anomalies", <<>>)
        operational_risks ==
            Map(SelectSeq(anomalies, LAMBDA anomaly : Get(anomaly, "severity", "None") = "high"),
                LAMBDA anomaly : anomaly.description)
        \* compliance_score < 0.7, the score in tenths
        compliance_risks ==
            IF Get(Get(analyses, "badge", EmptyDict), "compliance_score10", 0) < 7
            THEN <<"Baixa conformidade com politica de crachas">> ELSE <<>>
    IN [security_risks |-> security_risks,
        operational_risks |-> operational_risks,
        compliance_risks |-> compliance_risks,
        overall_risk_level |->
            CorrelationRiskLevel(Len(security_risks) * 3 + Len(operational_risks) * 2
                                 + Len(compliance_risks) * 1)]

-----------------------------------------------------------------------------
(* IntegratedAnalysisSystem._check_behavioral_consistency; anomaly_score   *)
(* is kept doubled, formal_score in tenths                                 *)

CheckBehavioralConsistency(analyses) ==
    LET attr_data == Get(analyses, "attributes", EmptyDict)
        schedule_data == Get(analyses, "schedule", EmptyDict)
        informal == /\ Get(schedule_data, "expected_status", "unknown") = "should_be_present"
                    /\ Get(attr_data, "formal_score10", 0) < 6
    IN [dress_code_schedule_match |-> TRUE,
        behavior_indicators |-> IF informal
                                THEN <<"Vestimenta informal em horario de trabalho">> ELSE <<>>,
        anomaly_score2 |-> (IF informal THEN 2 ELSE 0)
                           + Len(Get(schedule_data, "anomalies", <<>>))]

-----------------------------------------------------------------------------
(* IntegratedAnalysisSystem._calculate_overall_assessment; confidence is   *)
(* kept in twentieths                                                      *)

\* a priority of 'high' for any violation at all
AssessmentStatusAnyViolation(violations, risk_level) ==
    IF Len(violations) > 0 \/ risk_level \in {"critical", "high"} THEN "alert"
    ELSE IF risk_level = "medium" THEN "warning"
    ELSE "normal"

AssessmentStatus(violations, risk_level) ==
    IF Len(SelectSeq(violations, LAMBDA v : Get(v, "severity", "None") = "high")) > 0
       \/ risk_level \in {"critical", "high"}
    THEN "alert"
    ELSE IF Len(violations) > 0 \/ risk_level = "medium" THEN "warning"
    ELSE "normal"

CalculateOverallAssessment(correlation) ==
    LET violations == Get(correlation, "policy_violations", <<>>)
        risk_level == Get(Get(correlation, "risk_indicators", EmptyDict),
                          "overall_risk_level", "low")
        status == AssessmentStatus(violations, risk_level)
        verification_status == Get(Get(correlation, "identity_consistency", EmptyDict),
                                   "verification_status", "None")
        anomaly_score2 == Get(Get(correlation, "behavioral_consistency", EmptyDict),
                              "anomaly_score2", 0)
        \* max(0.0, 0.3 - anomaly_score * 0.1)
        behavioral_confidence20 == IF 6 - anomaly_score2 > 0 THEN 6 - anomaly_score2 ELSE 0
    IN [status |-> status,
        confidence20 |-> (IF verification_status = "verified" THEN 8
                          ELSE IF verification_status = "partial" THEN 4 ELSE 0)
                         + behavioral_confidence20
                         + (IF Len(violations) = 0 THEN 6 ELSE 0),
        action_required |-> status # "normal",
        priority |-> IF status = "alert" THEN "high"
                     ELSE IF status = "warning" THEN "medium" ELSE "low",
        summary |-> IF status = "alert" THEN "Situacao requer atencao imediata"
                    ELSE IF status = "warning" THEN "Situacao requer monitoramento"
                    ELSE "Situacao dentro da normalidade"]

-----------------------------------------------------------------------------
(* IntegratedAnalysisSystem._correlate_analyses                            *)

CorrelateAnalyses(individual_analyses) ==
    LET correlation ==
            [kind |-> "correlation",
             identity_consistency |-> CheckIdentityConsistency(individual_analyses),
             behavioral_consistency |-> CheckBehavioralConsistency(individual_analyses),
             policy_violations |-> IdentifyPolicyViolations(individual_analyses),
             risk_indicators |-> IdentifyRiskIndicators(individual_analyses)]
    IN correlation @@ [overall_assessment |-> CalculateOverallAssessment(correlation)]

-----------------------------------------------------------------------------
(* IntegratedAnalysisSystem._generate_alerts                               *)

Alert(type, severity, title, description, now, requires_action) ==
    [type |-> type, severity |-> severity, title |-> title, description |-> description,
     timestamp |-> IsoFormat(now), requires_action |-> requires_action]

\* an alert for a violation of any severity
AlertedSeveritiesAll == {"low", "medium", "high", "critical"}

\* violation.get('severity') in ['high', 'critical']
AlertedSeverities == {"high", "critical"}

GenerateAlerts(integrated_results, now) ==
    LET integrated_assessment == Get(integrated_results, "integrated_assessment", EmptyDict)
        violations == Get(integrated_assessment, "policy_violations", <<>>)
        risk_indicators == Get(integrated_assessment, "risk_indicators", EmptyDict)
        face_analysis == Get(Get(integrated_results, "individual_analyses", EmptyDict),
                             "face", EmptyDict)
    IN Map(SelectSeq(violations, LAMBDA v : Get(v, "severity", "None") \in AlertedSeverities),
           LAMBDA v : Alert("policy_violation", v.severity,
                            [text |-> "Violacao", value |-> v.description],
                            [text |-> "Politica", value |-> Get(v, "policy", "N/A")],
                            now, TRUE))
       \o Map(Get(risk_indicators, "security_risks", <<>>),
              LAMBDA risk : Alert("security_risk", "high", [text |-> "Risco de Seguranca"],
                                  [text |-> risk], now, TRUE))
       \o (IF Get(face_analysis, "detected", FALSE)
              /\ ~Get(face_analysis, "employee_detected", FALSE)
           THEN <<Alert("unidentified_person", "critical", [text |-> "Pessoa Nao Identificada"],
                        [text |-> "Pessoa detectada mas nao reconhecida no sistema"],
                        now, TRUE)>>
           ELSE <<>>)

-----------------------------------------------------------------------------
(* Results of the four analyzers handed to the correlation                 *)

MaxScheduleAnomalies == 2

\* what a _run_*_analysis returns when its analyzer is missing or raises
AnalyzerError == [error |-> "Erro na analise"]

FaceOutputs ==
    {[detected |-> FALSE, employee_detected |-> FALSE],
     [detected |-> TRUE, employee_detected |-> FALSE],
     [detected |-> TRUE, employee_detected |-> TRUE, employee_info |-> [name |-> MariaSilva]],
     AnalyzerError}

\* has_valid_badge and compliance_score as BadgeAnalyzer.analyze sets them
BadgeOutput(detected, has_valid_badge, badge_visible, employee_info_extracted) ==
    LET results == [detected |-> detected, has_valid_badge |-> has_valid_badge,
                    badge_visible |-> badge_visible,
                    employee_info_extracted |-> employee_info_extracted]
    IN IF employee_info_extracted /\ has_valid_badge /\ badge_visible
       THEN [detected |-> detected, has_valid_badge |-> has_valid_badge,
             compliance_score10 |-> CalculateComplianceScore(results),
             potential_name |-> MariaSilva]
       ELSE [detected |-> detected, has_valid_badge |-> has_valid_badge,
             compliance_score10 |-> CalculateComplianceScore(results)]

BadgeOutputs ==
    {BadgeOutput(FALSE, FALSE, FALSE, FALSE), AnalyzerError}
    \cup {BadgeOutput(TRUE, v, b, e) : v \in BOOLEAN, b \in BOOLEAN, e \in BOOLEAN}

AttributeOutputs ==
    {[dress_code_compliant |-> TRUE, formal_score10 |-> 8],
     [dress_code_compliant |-> FALSE, formal_score10 |-> 3],
     AnalyzerError}

ScheduleAnomalyKinds ==
    {[type |-> "weekend_work", description |-> "Trabalho em sabado", severity |-> "medium"],
     [type |-> "holiday_work", description |-> "Trabalho em feriado", severity |-> "high"]}

ScheduleAnomalyLists ==
    UNION {[1..n -> ScheduleAnomalyKinds] : n \in 0..MaxScheduleAnomalies}

ScheduleOutputs ==
    {AnalyzeScheduleCompliance(FALSE, "unknown", TRUE, <<>>), AnalyzerError}
    \cup {AnalyzeScheduleCompliance(TRUE, expected_status, session_up, anomalies) :
            expected_status \in {"should_be_present", "should_be_absent"},
            session_up \in BOOLEAN,
            anomalies \in ScheduleAnomalyLists}

IndividualAnalyses ==
    {[face |-> f, attributes |-> a, badge |-> b, schedule |-> s] :
        f \in FaceOutputs, a \in AttributeOutputs, b \in BadgeOutputs, s \in ScheduleOutputs}

\* integrated_results as analyze_comprehensive hands it to _generate_alerts
IntegratedResults(individual_analyses) ==
    [individual_analyses |-> individual_analyses,
     integrated_assessment |-> CorrelateAnalyses(individual_analyses)]

InitCorrelate ==
    /\ StoreIdle
    /\ call \in {[op |-> "_correlate_analyses", individual_analyses |-> a] :
                    a \in IndividualAnalyses}
               \cup {[op |-> "_generate_alerts", integrated_results |-> IntegratedResults(a)] :
                        a \in IndividualAnalyses}
    /\ ret = NotReturned

CorrelateAnalysesCall ==
    /\ call.op = "_correlate_analyses"
    /\ ret = NotReturned
    /\ ret' = CorrelateAnalyses(call.individual_analyses)
    /\ UNCHANGED <<detections_table, temporal_patterns, analysis_history, clock, call>>

GenerateAlertsCall ==
    /\ call.op = "_generate_alerts"
    /\ ret = NotReturned
    /\ ret' = Returned(GenerateAlerts(call.integrated_results, clock))
    /\ UNCHANGED <<detections_table, temporal_patterns, analysis_history, clock, call>>

NextCorrelate == CorrelateAnalysesCall \/ GenerateAlertsCall

SpecCorrelate == InitCorrelate /\ [][NextCorrelate]_vars

-----------------------------------------------------------------------------
(* Claims about the correlation and its alerts                             *)

C13_Violations == call.integrated_results.integrated_assessment.policy_violations

C13_SecurityRisks == call.integrated_results.integrated_assessment.risk_indicators.security_risks

C13_PersonUnmatched ==
    LET face == call.integrated_results.individual_analyses.face
    IN /\ "detected" \in DOMAIN face
       /\ face.detected
       /\ ~face.employee_detected

\* C13: the alert list holds exactly one policy_violation alert per policy
\* violation of severity high or critical, one security_risk alert per security
\* risk, one unidentified_person alert iff a person was detected without an
\* identity match, nothing else, and every alert requires action
C13_AlertsPerViolationAndRisk ==
    (call.op = "_generate_alerts" /\ ret # NotReturned) =>
        LET alerts == ret.value
            serious == SelectSeq(C13_Violations, LAMBDA v : v.severity \in {"high", "critical"})
            policy_alerts == SelectSeq(alerts, LAMBDA a : a.type = "policy_violation")
            risk_alerts == SelectSeq(alerts, LAMBDA a : a.type = "security_risk")
        IN /\ Len(policy_alerts) = Len(serious)
           /\ \A i \in 1..Len(serious) :
                  /\ policy_alerts[i].severity = serious[i].severity
                  /\ policy_alerts[i].title.value = serious[i].description
           /\ Len(risk_alerts) = Len(C13_SecurityRisks)
           /\ \A i \in 1..Len(risk_alerts) : risk_alerts[i].description.text = C13_SecurityRisks[i]
           /\ CountWhere(alerts, LAMBDA a : a.type = "unidentified_person")
                  = IF C13_PersonUnmatched THEN 1 ELSE 0
           /\ \A i \in 1..Len(alerts) :
                  /\ alerts[i].type \in {"policy_violation", "security_risk", "unidentified_person"}
                  /\ alerts[i].requires_action = TRUE

\* an unmatched person without a valid badge and out of dress code: two
\* policy_violation alerts, a security_risk alert and the unidentified_person
\* alert, and none for the low-severity dress-code violation
C13_Witness ==
    /\ call.op = "_generate_alerts"
    /\ ret # NotReturned
    /\ C13_PersonUnmatched
    /\ Len(C13_Violations) = 3
    /\ \E i \in 1..3 : C13_Violations[i].severity = "low"
    /\ Len(ret.value) = 4

\* C14: status is 'alert' (priority high, action required) iff a high-severity
\* violation exists or the risk level is high or critical; otherwise 'warning'
\* (priority medium) iff a violation exists or the risk level is medium;
\* otherwise 'normal' (priority low, no action required)
C14_OverallAssessment ==
    (call.op = "_correlate_analyses" /\ ret # NotReturned) =>
        LET assessment == ret.overall_assessment
            violations == ret.policy_violations
            risk_level == ret.risk_indicators.overall_risk_level
            alerting == \/ \E i \in 1..Len(violations) : violations[i].severity = "high"
                        \/ risk_level \in {"high", "critical"}
            warning == ~alerting /\ (violations # <<>> \/ risk_level = "medium")
        IN /\ assessment.status \in {"alert", "warning", "normal"}
           /\ assessment.status = "alert" <=> alerting
           /\ assessment.status = "warning" <=> warning
           /\ assessment.status = "normal" <=> (~alerting /\ ~warning)
           /\ assessment.status = "alert"
                  => assessment.priority = "high" /\ assessment.action_required
           /\ assessment.status = "warning" => assessment.priority = "medium"
           /\ assessment.status = "normal"
                  => assessment.priority = "low" /\ ~assessment.action_required

\* a warning raised by a medium risk level alone, with no violation at all
C14_Witness ==
    /\ call.op = "_correlate_analyses"
    /\ ret # NotReturned
    /\ ret.policy_violations = <<>>
    /\ ret.risk_indicators.overall_risk_level = "medium"
    /\ ret.overall_assessment.status = "warning"

C15_Face == call.individual_analyses.face
C15_Badge == call.individual_analyses.badge
C15_Schedule == call.individual_analyses.schedule

\* 3 x security risks + 2 x operational risks + 1 x compliance risks, counted
\* from the analyzer results
C15_Total ==
    3 * (IF "detected" \in DOMAIN C15_Face /\ C15_Face.detected /\ ~C15_Face.employee_detected
         THEN 1 ELSE 0)
    + 2 * (IF "anomalies" \in DOMAIN C15_Schedule
           THEN Cardinality({i \in 1..Len(C15_Schedule.anomalies) :
                                C15_Schedule.anomalies[i].severity = "high"})
           ELSE 0)
    + (IF "compliance_score10" \in DOMAIN C15_Badge /\ C15_Badge.compliance_score10 >= 7
       THEN 0 ELSE 1)

\* C15: with a security risk iff a person is detected without an employee match,
\* an operational risk per high-severity schedule anomaly and a compliance risk
\* iff the badge compliance score is below 0.7, the risk level is critical iff
\* total >= 6, high iff 4 <= total < 6, medium iff 2 <= total < 4, low iff total < 2
C15_CorrelationRiskLevel ==
    (call.op = "_correlate_analyses" /\ ret # NotReturned) =>
        LET risk == ret.risk_indicators
        IN /\ 3 * Len(risk.security_risks) + 2 * Len(risk.operational_risks)
                  + Len(risk.compliance_risks) = C15_Total
           /\ risk.overall_risk_level = "critical" <=> C15_Total >= 6
           /\ risk.overall_risk_level = "high" <=> (4 <= C15_Total /\ C15_Total < 6)
           /\ risk.overall_risk_level = "medium" <=> (2 <= C15_Total /\ C15_Total < 4)
           /\ risk.overall_risk_level = "low" <=> C15_Total < 2

\* one risk of each kind: the total is exactly 6 and the level is critical
C15_Witness ==
    /\ call.op = "_correlate_analyses"
    /\ ret # NotReturned
    /\ Len(ret.risk_indicators.security_risks) = 1
    /\ Len(ret.risk_indicators.operational_risks) = 1
    /\ Len(ret.risk_indicators.compliance_risks) = 1
    /\ ret.risk_indicators.overall_risk_level = "critical"

C16_Has(type, severity) ==
    \E i \in 1..Len(ret.policy_violations) :
        /\ ret.policy_violations[i].type = type
        /\ ret.policy_violations[i].severity = severity

\* the schedule analyzer reports the presence as violating the schedule: the
\* subject is present while expected to be absent
C16_PresenceViolatesSchedule ==
    /\ "expected_status" \in DOMAIN C15_Schedule
    /\ C15_Schedule.expected_status = "should_be_absent"
    /\ C15_Schedule.compliance_status = "non_compliant"

\* C16: the violation list holds no_valid_badge (high) iff there is no valid
\* badge, schedule_violation (medium) iff the schedule analyzer reports the
\* presence as violating the schedule, dress_code_violation (low) iff the attire
\* is not compliant, and unidentified_person (high) iff a person is detected but
\* not matched, each whatever the other three
C16_FourIndependentChecks ==
    (call.op = "_correlate_analyses" /\ ret # NotReturned) =>
        /\ C16_Has("no_valid_badge", "high")
               <=> ~("has_valid_badge" \in DOMAIN C15_Badge /\ C15_Badge.has_valid_badge)
        /\ C16_Has("schedule_violation", "medium") <=> C16_PresenceViolatesSchedule
        /\ C16_Has("dress_code_violation", "low")
               <=> ("dress_code_compliant" \in DOMAIN call.individual_analyses.attributes
                    /\ ~call.individual_analyses.attributes.dress_code_compliant)
        /\ C16_Has("unidentified_person", "high")
               <=> ("detected" \in DOMAIN C15_Face /\ C15_Face.detected
                    /\ ~C15_Face.employee_detected)

-----------------------------------------------------------------------------
(* Claims about the risk assessment inside a result                        *)

\* the fixed order low < medium < high < critical
C17_Rank(severity) ==
    IF severity = "low" THEN 1
    ELSE IF severity = "medium" THEN 2
    ELSE IF severity = "high" THEN 3
    ELSE 4

\* the score of the assessed lists with the severity of anomaly i replaced
C17_ScoreWith(i, severity) ==
    AssessBehavioralRisk(
        [call.analysis_results EXCEPT !.anomalies[i].severity = severity]).risk_score2

-----------------------------------------------------------------------------
(* analyze_patterns after _detect_behavioral_changes has returned: the     *)
(* recent detections are the window read from the store, sorted by         *)
(* timestamp, and behavioral_changes is a list of what the three change    *)
(* comparisons return.                                                     *)

MaxWindow == 3

NightOffice == DetectionRecord(86400 + At(3, 0, 0), Employee1, Office)
MorningOffice == DetectionRecord(86400 + At(9, 0, 0), Employee1, Office)
NoonCafe == DetectionRecord(86400 + At(12, 30, 0), Employee1, LunchCafe)

WindowRows == {NightOffice, MorningOffice, NoonCafe}

Windows ==
    {d \in UNION {[1..n -> WindowRows] : n \in 1..MaxWindow} : d = SortedByTimestamp(d)}

ArrivalTimeChange ==
    DetectTimePatternChange(<<StrftimeHM(At(10, 0, 0))>>, <<StrftimeHM(At(9, 0, 0))>>,
                            "arrival_time")

LocationPatternChange ==
    DetectLocationPatternChange(<<Entry(Office, 1)>>, <<Entry(ServerRoom, 1)>>)

ChangeKinds == {ArrivalTimeChange, LocationPatternChange}

DetectedChanges == UNION {[1..n -> ChangeKinds] : n \in 0..MaxChanges}

InitAssess ==
    /\ StoreIdle
    /\ call \in {[op |-> "analyze_detections", employee_id |-> Employee1,
                  recent_detections |-> d, behavioral_changes |-> c]
                 : d \in Windows, c \in DetectedChanges}
    /\ ret = NotReturned

AnalyzeDetectionsCall ==
    /\ call.op = "analyze_detections"
    /\ ret = NotReturned
    /\ ret' = AnalyzeDetections(call.recent_detections, call.behavioral_changes, call.employee_id)
    /\ UNCHANGED <<detections_table, temporal_patterns, analysis_history, clock, call>>

NextAssess == AnalyzeDetectionsCall

SpecAssess == InitAssess /\ [][NextAssess]_vars

-----------------------------------------------------------------------------
(* Claims about the sections of one analyze_patterns result                *)

C18_Weight(anomaly) ==
    IF anomaly.severity = "high" THEN 3 ELSE IF anomaly.severity = "medium" THEN 2 ELSE 1

\* twice min(10, weights + 1.5 x changes + 4 x restricted accesses)
C18_Score2(anomalies, changes) ==
    Min(20, 2 * Sum(Map(anomalies, C18_Weight)) + 3 * Len(changes)
            + 8 * CountWhere(anomalies, LAMBDA a : a.type = "restricted_area_access"))

C19_Has(text) == \E i \in 1..Len(ret.recommendations) : ret.recommendations[i] = text

\* C19: in every result of analyze_patterns, the recommendations hold the
\* increase-monitoring and review-access guidance when the result's
\* overall_risk_level is high or critical, the role/project-change guidance when
\* its behavioral_changes is not empty, and the routine-monitoring fallback only
\* when no other rule applies
C19_RecommendationsFollowResult ==
    (call.op = "analyze_detections" /\ ret # NotReturned) =>
        /\ ret.risk_assessment.overall_risk_level \in {"high", "critical"} =>
               /\ C19_Has("Aumentar frequencia de monitoramento")
               /\ C19_Has("Revisar permissoes de acesso")
        /\ ret.behavioral_changes # <<>> =>
               C19_Has("Verificar possiveis mudancas na funcao/projeto")
        /\ C19_Has("Manter monitoramento de rotina") =>
               /\ ret.risk_assessment.overall_risk_level \notin {"high", "critical"}
               /\ ret.behavioral_changes = <<>>
               /\ \A i \in 1..Len(ret.anomalies) :
                      ret.anomalies[i].type
                          \notin {"restricted_area_access", "unusual_hour_presence"}

C20_Protects(text) ==
    \E i \in 1..Len(ret.risk_assessment.protective_factors) :
        ret.risk_assessment.protective_factors[i] = text

\* C20: in every result of analyze_patterns, protective_factors holds the
\* high-social-interaction factor iff the result's social_score is above 0.7
\* and the consistent-arrival factor iff the result's arrival_times is not empty
C20_ProtectiveFactorsFollowResult ==
    (call.op = "analyze_detections" /\ ret # NotReturned) =>
        /\ C20_Protects("Alta interacao social")
               <=> 10 * ret.social_patterns.social_score.num
                       > 7 * ret.social_patterns.social_score.den
        /\ C20_Protects("Padrao de horarios consistente")
               <=> ret.temporal_patterns.arrival_times # <<>>

-----------------------------------------------------------------------------
(* Detection lists handed to _detect_unusual_hours: sorted by timestamp,   *)
(* one detection per drawn hour of one day, at half past the hour          *)

MaxHourly == 2

HourlyDetection(hour) == DetectionRecord(86400 + At(hour, 30, 0), Employee1, Office)

HourlyLists ==
    {[i \in 1..Len(hours) |-> HourlyDetection(hours[i])]
     : hours \in {h \in UNION {[1..n -> 0..23] : n \in 0..MaxHourly}
                    : \A i \in 1..Len(h) - 1 : h[i] =< h[i + 1]}}

InitHours ==
    /\ StoreIdle
    /\ call \in {[op |-> "_detect_unusual_hours", detections |-> d] : d \in HourlyLists}
    /\ ret = NotReturned

DetectUnusualHoursCall ==
    /\ call.op = "_detect_unusual_hours"
    /\ ret = NotReturned
    /\ ret' = Returned(DetectUnusualHours(call.detections))
    /\ UNCHANGED <<detections_table, temporal_patterns, analysis_history, clock, call>>

NextHours == DetectUnusualHoursCall

SpecHours == InitHours /\ [][NextHours]_vars

C21_Hour(detection) == (detection.timestamp % 86400) \div 3600

\* the detections of the call whose hour is 0..5 or 23, in call order
C21_Flagged == SelectSeq(call.detections, LAMBDA d : C21_Hour(d) \in (0..5) \cup {23})

\* C21: the unusual-hour check emits exactly one unusual_hour_presence anomaly
\* per detection whose hour is in 0..5 or is 23, none for hours 6..22, with
\* severity medium for hour 23 and high for hours 0..5
C21_UnusualHours ==
    (call.op = "_detect_unusual_hours" /\ ret # NotReturned) =>
        /\ Len(ret.value) = Len(C21_Flagged)
        /\ \A i \in 1..Len(ret.value) :
               /\ ret.value[i].type = "unusual_hour_presence"
               /\ ret.value[i].hour = C21_Hour(C21_Flagged[i])
               /\ ret.value[i].timestamp = IsoFormat(C21_Flagged[i].timestamp)
               /\ ret.value[i].severity = IF ret.value[i].hour = 23 THEN "medium" ELSE "high"

\* a list with hour 22 and hour 23 gave one anomaly, of severity medium
C21_Witness ==
    /\ call.op = "_detect_unusual_hours"
    /\ ret # NotReturned
    /\ Len(call.detections) = 2
    /\ C21_Hour(call.detections[1]) = 22
    /\ C21_Hour(call.detections[2]) = 23
    /\ Len(ret.value) = 1
    /\ ret.value[1].severity = "medium"

-----------------------------------------------------------------------------
(* Detection lists handed to _detect_frequency_anomaly: sorted by          *)
(* timestamp, given by the seconds between consecutive detections          *)

MaxGaps == 3

GapSeconds == {30, 60, 180 * 60, 180 * 60 + 1}

RECURSIVE Spaced(_, _)
\* detections from 00:10 on, gaps[i] seconds between detection i and i + 1
Spaced(gaps, start) ==
    <<DetectionRecord(start, Employee1, Office)>>
    \o (IF gaps = <<>> THEN <<>> ELSE Spaced(Tail(gaps), start + Head(gaps)))

SpacedLists ==
    {<<>>} \cup {Spaced(gaps, 86400 + At(0, 10, 0))
                 : gaps \in UNION {[1..n -> GapSeconds] : n \in 0..MaxGaps}}

InitFrequency ==
    /\ StoreIdle
    /\ call \in {[op |-> "_detect_frequency_anomaly", detections |-> d] : d \in SpacedLists}
    /\ ret = NotReturned

DetectFrequencyAnomalyCall ==
    /\ call.op = "_detect_frequency_anomaly"
    /\ ret = NotReturned
    /\ ret' = DetectFrequencyAnomaly(call.detections)
    /\ UNCHANGED <<detections_table, temporal_patterns, analysis_history, clock, call>>

NextFrequency == DetectFrequencyAnomalyCall

SpecFrequency == InitFrequency /\ [][NextFrequency]_vars

\* seconds between detection i and detection i + 1 of the call
C22_Gap(i) == call.detections[i + 1].timestamp - call.detections[i].timestamp

C22_SomeGapOver180Min == \E i \in 1..Len(call.detections) - 1 : C22_Gap(i) > 180 * 60

C22_SomeGapUnder1Min == \E i \in 1..Len(call.detections) - 1 : C22_Gap(i) < 60

\* C22: the frequency check returns at most one anomaly: large_detection_gap
\* (low) iff the largest consecutive gap exceeds 180 minutes, otherwise
\* high_detection_frequency (low) iff the smallest gap is under 1 minute,
\* otherwise nothing; with both, only large_detection_gap; nothing for fewer
\* than 2 detections
C22_FrequencyAnomaly ==
    (call.op = "_detect_frequency_anomaly" /\ ret # NotReturned) =>
        /\ C22_SomeGapOver180Min =>
               ret.type = "large_detection_gap" /\ ret.severity = "low"
        /\ (~C22_SomeGapOver180Min /\ C22_SomeGapUnder1Min) =>
               ret.type = "high_detection_frequency" /\ ret.severity = "low"
        /\ (~C22_SomeGapOver180Min /\ ~C22_SomeGapUnder1Min) => ret = None
        /\ Len(call.detections) < 2 => ret = None

\* a list with a gap over 180 minutes and a gap under 1 minute gave the large gap
C22_Witness ==
    /\ call.op = "_detect_frequency_anomaly"
    /\ ret # NotReturned
    /\ C22_SomeGapOver180Min
    /\ C22_SomeGapUnder1Min
    /\ ret.type = "large_detection_gap"

-----------------------------------------------------------------------------
(* Arrival-time samples handed to _detect_time_pattern_change, and the     *)
(* historical patterns handed to _detect_behavioral_changes in the shape   *)
(* _get_historical_patterns builds them: pattern type -> list of rows      *)

MaxTimes == 2

ArrivalTimes ==
    {StrftimeHM(At(9, 0, 0)), StrftimeHM(At(9, 30, 0)), StrftimeHM(At(9, 31, 0)),
     StrftimeHM(At(10, 0, 0))}

TimeSamples == UNION {[1..n -> ArrivalTimes] : n \in 0..MaxTimes}

\* a day's detections; the first one of a day with two or more is its arrival
ChangeWindows == {<<MorningOffice>>, <<MorningOffice, NoonCafe>>, <<NightOffice, MorningOffice>>}

Baseline(arrival_times) ==
    [temporal |-> <<[date |-> 0, data |-> [arrival_times |-> arrival_times], confidence |-> 90]>>]

HistoricalPatterns == {EmptyDict} \cup {Baseline(h) : h \in TimeSamples}

InitChanges ==
    /\ StoreIdle
    /\ call \in {[op |-> "_detect_time_pattern_change", recent_times |-> r,
                  historical_times |-> h, pattern_type |-> "arrival_time"]
                 : r \in TimeSamples, h \in TimeSamples}
            \cup {[op |-> "_detect_behavioral_changes", recent_detections |-> d,
                   historical_patterns |-> p]
                  : d \in ChangeWindows, p \in HistoricalPatterns}
    /\ ret = NotReturned

DetectTimePatternChangeCall ==
    /\ call.op = "_detect_time_pattern_change"
    /\ ret = NotReturned
    /\ ret' = DetectTimePatternChange(call.recent_times, call.historical_times, call.pattern_type)
    /\ UNCHANGED <<detections_table, temporal_patterns, analysis_history, clock, call>>

DetectBehavioralChangesCall ==
    /\ call.op = "_detect_behavioral_changes"
    /\ ret = NotReturned
    /\ ret' = Returned(DetectBehavioralChanges(call.recent_detections, call.historical_patterns))
    /\ UNCHANGED <<detections_table, temporal_patterns, analysis_history, clock, call>>

NextChanges == DetectTimePatternChangeCall \/ DetectBehavioralChangesCall

SpecChanges == InitChanges /\ [][NextChanges]_vars

\* minutes since midnight of "HH:MM"
C23_Minutes(t) ==
    600 * DigitValue(t[1]) + 60 * DigitValue(t[2]) + 10 * DigitValue(t[4]) + DigitValue(t[5])

C23_Total(times) == Sum(Map(times, C23_Minutes))

\* |mean(recent) - mean(historical)| * Len(recent) * Len(historical)
C23_Diff(recent, historical) ==
    Abs(C23_Total(recent) * Len(historical) - C23_Total(historical) * Len(recent))

\* the severity the rule gives two non-empty samples, "none" for no record:
\* d > T gives medium when d < 2T and high when d >= 2T
C23_Expected(recent, historical) ==
    LET d == C23_Diff(recent, historical)
        T == lunch_time_variance_threshold * Len(recent) * Len(historical)
    IN IF recent = <<>> \/ historical = <<>> \/ d =< T THEN "none"
       ELSE IF d < 2 * T THEN "medium" ELSE "high"

\* the arrival-time sample of the recent detections of the call
C23_RecentArrivals == AnalyzeTemporalPatterns(call.recent_detections).arrival_times

\* the persisted arrival-time baseline of the call, empty when there is none
C23_BaselineArrivals ==
    IF "temporal" \in DOMAIN call.historical_patterns
    THEN call.historical_patterns.temporal[1].data.arrival_times
    ELSE <<>>

C23_ArrivalChanges == SelectSeq(ret.value, LAMBDA c : c.type = "arrival_time_change")

\* the rule for the time comparison called on two samples
C23_ComparisonAlone ==
    (call.op = "_detect_time_pattern_change" /\ ret # NotReturned) =>
        LET expected == C23_Expected(call.recent_times, call.historical_times)
        IN IF expected = "none" THEN ret = None
           ELSE ret # None /\ ret.severity = expected

\* C23: given non-empty recent and historical arrival-time samples whose mean
\* minutes differ by d, a change record is emitted iff d > T, of severity
\* medium when d < 2T and high when d >= 2T; with no baseline or an empty
\* recent sample no change record is emitted
C23_TimePatternChange ==
    /\ C23_ComparisonAlone
    /\ (call.op = "_detect_behavioral_changes" /\ ret # NotReturned) =>
           LET expected == C23_Expected(C23_RecentArrivals, C23_BaselineArrivals)
           IN IF expected = "none" THEN C23_ArrivalChanges = <<>>
              ELSE /\ Len(C23_ArrivalChanges) = 1
                   /\ C23_ArrivalChanges[1].severity = expected

-----------------------------------------------------------------------------
(* Detection lists handed to _identify_typical_routes: trips of detections *)
(* ten minutes apart, a drawn gap between one trip and the next. A         *)
(* location is a free string and may hold the text " -> " itself.          *)

MaxTrips == 3

OfficeToHallway == Office \o Arrow \o Hallway
HallwayToServerRoom == Hallway \o Arrow \o ServerRoom

TripPaths ==
    {<<Office, Hallway, ServerRoom>>, <<Office, Hallway>>,
     <<OfficeToHallway, ServerRoom, Office>>, <<Office, HallwayToServerRoom, Office>>}

\* seconds between the last detection of a trip and the first of the next
TripGaps == {59 * 60, 60 * 60}

Trip(path, start) ==
    [i \in 1..Len(path) |-> DetectionRecord(start + 600 * (i - 1), Employee1, path[i])]

RECURSIVE Trips(_, _, _)
Trips(paths, gaps, start) ==
    IF paths = <<>> THEN <<>>
    ELSE Trip(Head(paths), start)
         \o (IF Tail(paths) = <<>> THEN <<>>
             ELSE Trips(Tail(paths), Tail(gaps),
                        start + 600 * (Len(Head(paths)) - 1) + Head(gaps)))

TripLists ==
    {Trips(paths, gaps, 86400 + At(8, 0, 0))
     : <<paths, gaps>> \in UNION {[1..n -> TripPaths] \X [1..(IF n = 0 THEN 0 ELSE n - 1) -> TripGaps]
                                  : n \in 0..MaxTrips}}

InitRoutes ==
    /\ StoreIdle
    /\ call \in {[op |-> "_identify_typical_routes", detections |-> d] : d \in TripLists}
    /\ ret = NotReturned

IdentifyTypicalRoutesCall ==
    /\ call.op = "_identify_typical_routes"
    /\ ret = NotReturned
    /\ ret' = Returned(IdentifyTypicalRoutes(call.detections))
    /\ UNCHANGED <<detections_table, temporal_patterns, analysis_history, clock, call>>

NextRoutes == IdentifyTypicalRoutesCall

SpecRoutes == InitRoutes /\ [][NextRoutes]_vars

\* the detections of the call are chronological; seconds from detection i to i + 1
C24_Gap(i) == call.detections[i + 1].timestamp - call.detections[i].timestamp

\* first positions of the sub-sequences: a gap of 60 minutes or more cuts
C24_Starts == {1} \cup {i + 1 : i \in {j \in 1..Len(call.detections) - 1 : C24_Gap(j) >= 60 * 60}}

C24_End(start) ==
    CHOOSE e \in start..Len(call.detections) :
        /\ \A i \in start..(e - 1) : C24_Gap(i) < 60 * 60
        /\ e = Len(call.detections) \/ C24_Gap(e) >= 60 * 60

\* sub-sequences of at least 3 records, named by their first position
C24_Candidates ==
    IF call.detections = <<>> THEN {}
    ELSE {s \in C24_Starts : C24_End(s) - s + 1 >= 3}

C24_Path(start) == [i \in 1..(C24_End(start) - start + 1) |-> call.detections[start + i - 1].location]

C24_RouteString(start) == Join(Arrow, C24_Path(start))

C24_Occurrences(route) == Cardinality({s \in C24_Candidates : C24_RouteString(s) = route})

C24_Shape ==
    /\ Len(ret.value) =< 10
    /\ \A i \in 1..Len(ret.value) : ret.value[i].frequency >= 2
    /\ \A i \in 1..Len(ret.value) - 1 : ret.value[i].frequency >= ret.value[i + 1].frequency
    /\ \A i, j \in 1..Len(ret.value) : ret.value[i].route = ret.value[j].route => i = j

-----------------------------------------------------------------------------
(* Detection lists handed to _calculate_time_per_location and              *)
(* _detect_excessive_location_time: chronological, given by locations and  *)
(* the seconds between consecutive detections. A detection stored without  *)
(* a location carries the empty string.                                    *)

MaxStops == 3

StopLocations == {Office, ServerRoom, <<>>}

StopGaps == {10 * 60, 240 * 60, 241 * 60}

RECURSIVE Stops(_, _, _)
Stops(locations, gaps, start) ==
    IF locations = <<>> THEN <<>>
    ELSE <<DetectionRecord(start, Employee1, Head(locations))>>
         \o (IF Tail(locations) = <<>> THEN <<>>
             ELSE Stops(Tail(locations), Tail(gaps), start + Head(gaps)))

StopLists ==
    {Stops(locations, gaps, 86400 + At(6, 0, 0))
     : <<locations, gaps>> \in
           UNION {[1..n -> StopLocations] \X [1..(IF n = 0 THEN 0 ELSE n - 1) -> StopGaps]
                  : n \in 0..MaxStops}}

InitDwell ==
    /\ StoreIdle
    /\ call \in {[op |-> op, detections |-> d]
                 : op \in {"_calculate_time_per_location", "_detect_excessive_location_time"},
                   d \in StopLists}
    /\ ret = NotReturned

CalculateTimePerLocationCall ==
    /\ call.op = "_calculate_time_per_location"
    /\ ret = NotReturned
    /\ ret' = Returned(CalculateTimePerLocation(call.detections))
    /\ UNCHANGED <<detections_table, temporal_patterns, analysis_history, clock, call>>

DetectExcessiveLocationTimeCall ==
    /\ call.op = "_detect_excessive_location_time"
    /\ ret = NotReturned
    /\ ret' = Returned(DetectExcessiveLocationTime(call.detections))
    /\ UNCHANGED <<detections_table, temporal_patterns, analysis_history, clock, call>>

NextDwell == CalculateTimePerLocationCall \/ DetectExcessiveLocationTimeCall

SpecDwell == InitDwell /\ [][NextDwell]_vars

\* positions where the location differs from the one before
C25_Changes ==
    SelectSeq([i \in 1..Len(call.detections) |-> i],
              LAMBDA i : i > 1 /\ call.detections[i].location # call.detections[i - 1].location)

\* first detection of the stay that detection i belongs to
C25_Entered(i) ==
    CHOOSE s \in 1..i :
        /\ \A k \in (s + 1)..i : call.detections[k].location = call.detections[s].location
        /\ s = 1 \/ call.detections[s - 1].location # call.detections[s].location

\* seconds of the intervals accrued to a location: one per change away from
\* it, from the first detection there to the first detection at the next one
C25_Intervals(location) ==
    Map(SelectSeq(C25_Changes, LAMBDA i : call.detections[i - 1].location = location),
        LAMBDA i : call.detections[i].timestamp - call.detections[C25_Entered(i - 1)].timestamp)

C25_Locations == {call.detections[i].location : i \in 1..Len(call.detections)}

\* mean of the intervals of the location above 240 minutes
C25_Excessive(location) ==
    /\ C25_Intervals(location) # <<>>
    /\ Sum(C25_Intervals(location)) > 240 * 60 * Len(C25_Intervals(location))

\* the result over the locations of the set: a mean for exactly those with an
\* interval, an anomaly of medium severity for exactly those above 240 minutes
C25_DwellOver(locations) ==
    /\ call.op = "_calculate_time_per_location" =>
           \A location \in locations :
               /\ HasKey(ret.value, location) <=> C25_Intervals(location) # <<>>
               /\ HasKey(ret.value, location) =>
                      LET mean == DictGet(ret.value, location, ZeroScore)
                      IN mean.num * 60 * Len(C25_Intervals(location))
                             = Sum(C25_Intervals(location)) * mean.den
    /\ call.op = "_detect_excessive_location_time" =>
           \A location \in locations :
               /\ C25_Excessive(location) <=>
                      \E i \in 1..Len(ret.value) : ret.value[i].location = location
               /\ \A i \in 1..Len(ret.value) :
                      /\ ret.value[i].type = "excessive_location_time"
                      /\ ret.value[i].severity = "medium"

\* The dwell-time rule restricted to named locations (what the code does): one
\* interval is accrued to the previous location at each change of location,
\* from the first detection there to the first at the next one, unless the
\* previous location is the empty string, which accrues nothing; the result is
\* the mean per location, the final location accrues nothing, and
\* excessive_location_time (medium) is emitted for exactly the named locations
\* whose mean exceeds 240 minutes
C25_DwellTime ==
    (call.op \in {"_calculate_time_per_location", "_detect_excessive_location_time"}
     /\ ret # NotReturned) =>
        /\ C25_DwellOver(C25_Locations \ {<<>>})
        /\ call.op = "_calculate_time_per_location" => ~HasKey(ret.value, <<>>)
        /\ call.op = "_detect_excessive_location_time" =>
               \A i \in 1..Len(ret.value) : ret.value[i].location # <<>>

\* C25: the dwell-time rule for every location detections carry, the empty
\* string included: an interval at each change of location, the mean per
\* location, and an anomaly exactly for means over 240 minutes
C25_AsStated ==
    (call.op \in {"_calculate_time_per_location", "_detect_excessive_location_time"}
     /\ ret # NotReturned) => C25_DwellOver(C25_Locations)

\* a stay of 241 minutes at one location followed by another location gave one
\* anomaly, and the location visited last none
C25_Witness ==
    /\ call.op = "_detect_excessive_location_time"
    /\ ret # NotReturned
    /\ Len(call.detections) = 3
    /\ call.detections[1].location = Office
    /\ call.detections[2].location = Office
    /\ call.detections[3].location = ServerRoom
    /\ call.detections[3].timestamp - call.detections[1].timestamp = 251 * 60
    /\ Len(ret.value) = 1
    /\ ret.value[1].location = Office

-----------------------------------------------------------------------------
(* ScheduleAnalyzer._check_early_arrival                                   *)
(* local_time is the detection time in the analyzer's timezone, kept as    *)
(* its weekday (0 = Monday) and its hour and minute. schedule_info.values()*)
(* is the sequence of grade entries; a parsed schedule always has the keys *)
(* weekdays, saturday and sunday, each {} or {'start', 'end'}.             *)

\* schedule_config['early_arrival_threshold'], minutes
early_arrival_threshold == 30

\* minutes2 - minutes1 of the two times of day
TimeDifferenceMinutes(minutes1, minutes2) == minutes2 - minutes1

\* the schedule entry of the weekday: weekdays, saturday or sunday
DaySchedule(schedule, weekday) ==
    IF weekday < 5 THEN schedule.weekdays
    ELSE IF weekday = 5 THEN schedule.saturday
    ELSE schedule.sunday

KeyError == [kind |-> "KeyError"]

\* the loop over the grades from grade i on: the anomaly, None, or KeyError
\* when the entry of the day is {} and ['start'] raises
RECURSIVE EarlyArrivalFrom(_, _, _)
EarlyArrivalFrom(local_time, grades, i) ==
    IF i > Len(grades) THEN None
    ELSE LET grade_info == grades[i]
             schedule == grade_info.parsed_schedule
         IN IF schedule.is_24h THEN EarlyArrivalFrom(local_time, grades, i + 1)
            ELSE IF "start" \notin DOMAIN DaySchedule(schedule, local_time.weekday) THEN KeyError
            ELSE LET start_time == TimeToMinutes(DaySchedule(schedule, local_time.weekday).start)
                     arrival_time == local_time.hour * 60 + local_time.minute
                     minutes_early == TimeDifferenceMinutes(start_time, arrival_time)
                 IN IF minutes_early > early_arrival_threshold
                    THEN [type |-> "early_arrival",
                          description |-> [text |-> "Chegada minutos antes do horario",
                                           value |-> minutes_early],
                          severity |-> IF minutes_early < early_arrival_threshold * 2
                                       THEN "low" ELSE "medium",
                          details |-> [minutes_early |-> minutes_early,
                                       expected_time |-> TwoDigits(start_time \div 60) \o <<":">>
                                                             \o TwoDigits(start_time % 60),
                                       actual_time |-> TwoDigits(local_time.hour) \o <<":">>
                                                           \o TwoDigits(local_time.minute),
                                       grade |-> grade_info.grade,
                                       location |-> grade_info.location]]
                    ELSE EarlyArrivalFrom(local_time, grades, i + 1)

\* an exception inside the try block is printed and None is returned
CheckEarlyArrival(local_time, grades) ==
    LET found == EarlyArrivalFrom(local_time, grades, 1)
    IN IF found = KeyError THEN None ELSE found

-----------------------------------------------------------------------------
(* Detection times and schedules handed to _check_early_arrival            *)

MaxGrades == 2

NoHours == [none |-> TRUE]

Hours(start, end) == [start |-> start, end |-> end]

ParsedSchedule(is_24h, weekdays, saturday, sunday) ==
    [is_24h |-> is_24h, weekdays |-> weekdays, saturday |-> saturday, sunday |-> sunday]

GradeInfos ==
    {[grade |-> "24h", location |-> Office,
      parsed_schedule |-> ParsedSchedule(TRUE, Hours(<<"0","0",":","0","0">>, <<"2","3",":","5","9">>),
                                         Hours(<<"0","0",":","0","0">>, <<"2","3",":","5","9">>),
                                         Hours(<<"0","0",":","0","0">>, <<"2","3",":","5","9">>))],
     [grade |-> "weekdays", location |-> Office,
      parsed_schedule |-> ParsedSchedule(FALSE, Hours(<<"0","9",":","0","0">>, <<"1","8",":","0","0">>),
                                         NoHours, NoHours)],
     [grade |-> "six days", location |-> ServerRoom,
      parsed_schedule |-> ParsedSchedule(FALSE, Hours(<<"1","0",":","0","0">>, <<"1","9",":","0","0">>),
                                         Hours(<<"9",":","0","0">>, <<"1","3",":","0","0">>),
                                         NoHours)]}

GradeLists == UNION {[1..n -> GradeInfos] : n \in 0..MaxGrades}

LocalTimes ==
    {[weekday |-> weekday, hour |-> t[1], minute |-> t[2]]
     : weekday \in {0, 5, 6},
       t \in {<<7, 59>>, <<8, 0>>, <<8, 29>>, <<8, 30>>, <<9, 0>>, <<9, 30>>, <<9, 31>>,
              <<9, 59>>, <<10, 0>>, <<10, 31>>}}

InitEarly ==
    /\ StoreIdle
    /\ call \in {[op |-> "_check_early_arrival", local_time |-> t, schedule_info |-> g]
                 : t \in LocalTimes, g \in GradeLists}
    /\ ret = NotReturned

CheckEarlyArrivalCall ==
    /\ call.op = "_check_early_arrival"
    /\ ret = NotReturned
    /\ ret' = CheckEarlyArrival(call.local_time, call.schedule_info)
    /\ UNCHANGED <<detections_table, temporal_patterns, analysis_history, clock, call>>

NextEarly == CheckEarlyArrivalCall

SpecEarly == InitEarly /\ [][NextEarly]_vars

\* minutes by which the detection precedes the scheduled start the anomaly names
C26_Lead ==
    C23_Minutes(ret.details.expected_time)
        - (call.local_time.hour * 60 + call.local_time.minute)

\* C26: early_arrival is emitted only when the detection time precedes the
\* scheduled start of the day by more than early_arrival_threshold minutes,
\* with severity low when the lead is under twice the threshold and medium
\* otherwise; a detection after the scheduled start never produces it
C26_EarlyArrival ==
    (call.op = "_check_early_arrival" /\ ret # NotReturned /\ ret # None) =>
        /\ ret.type = "early_arrival"
        /\ C26_Lead > 30
        /\ ret.severity = IF C26_Lead < 2 * 30 THEN "low" ELSE "medium"

-----------------------------------------------------------------------------
(* Alerts against the overall assessment of the same event                 *)

C30_Assessment == call.integrated_results.integrated_assessment.overall_assessment

\* C30: whenever _generate_alerts returns a non-empty alert list for an event,
\* the overall assessment of that event has status 'alert', priority high and
\* action_required true
C30_AlertsOnlyOnAlertStatus ==
    (call.op = "_generate_alerts" /\ ret # NotReturned /\ Len(ret.value) > 0) =>
        /\ C30_Assessment.status = "alert"
        /\ C30_Assessment.priority = "high"
        /\ C30_Assessment.action_required

\* an identified employee without a valid badge raised one alert, and the event
\* was assessed 'alert'
C30_Witness ==
    /\ call.op = "_generate_alerts"
    /\ ret # NotReturned
    /\ Len(ret.value) = 1
    /\ ret.value[1].type = "policy_violation"
    /\ Get(call.integrated_results.individual_analyses.face, "employee_detected", FALSE)
    /\ C30_Assessment.status = "alert"

\* an event assessed 'warning' or 'normal' raised no alert
C30_QuietWitness ==
    /\ call.op = "_generate_alerts"
    /\ ret # NotReturned
    /\ ret.value = <<>>
    /\ C30_Assessment.status = "warning"

-----------------------------------------------------------------------------
(* IntegratedAnalysisSystem.analyze_comprehensive                          *)

\* raised by the attribute lookup self._check_compliance: the class defines
\* _check_identity_consistency, _check_behavioral_consistency and
\* _check_badge_policy, and no _check_compliance
CheckComplianceError ==
    [raised |-> "AttributeError",
     text |-> "'IntegratedAnalysisSystem' object has no attribute '_check_compliance'"]

\* IntegratedAnalysisSystem._extract_employee_id
ExtractEmployeeId(results) ==
    LET individual_analyses == Get(results, "individual_analyses", EmptyDict)
        face_data == Get(individual_analyses, "face", EmptyDict)
        potential_id == Get(Get(individual_analyses, "badge", EmptyDict), "potential_id", <<>>)
    IN IF Get(face_data, "employee_detected", FALSE)
       THEN Get(Get(face_data, "employee_info", EmptyDict), "name", <<"u","n","k","n","o","w","n">>)
       ELSE IF potential_id # <<>> THEN potential_id
       ELSE <<"u","n","k","n","o","w","n">>

\* The call as a whole: the dict it returns, the history it leaves and the calls
\* it made on analyzers['patterns'].  The four analyses and the correlation
\* fill the result; the statement after them looks up self._check_compliance,
\* which raises, and the except clause of the method records the message.  The
\* statements between that lookup and the except clause (alerts,
\* recommendations, confidence scores, the pattern analysis guarded by
\* len(self.analysis_history) > 0, and _add_to_pattern_analysis) are not run.
AnalyzeComprehensive(history, individual_analyses, now) ==
    [integrated_results |->
        [timestamp |-> IsoFormat(now),
         individual_analyses |-> individual_analyses,
         integrated_assessment |-> CorrelateAnalyses(individual_analyses),
         compliance_check |-> EmptyDict,
         alerts |-> <<>>,
         recommendations |-> <<>>,
         confidence_scores |-> EmptyDict,
         error |-> CheckComplianceError.text],
     analysis_history |-> history,
     patterns_calls |-> <<>>]

-----------------------------------------------------------------------------
(* Successive analyze_comprehensive calls on one system                    *)

MaxCalls == 3

\* what the four analyzers return for the frames handed in
FrameAnalyses ==
    {a \in IndividualAnalyses :
        /\ a.attributes # AnalyzerError
        /\ a.schedule = AnalyzeScheduleCompliance(FALSE, "unknown", TRUE, <<>>)}

InitComprehensive ==
    /\ StoreIdle
    /\ call = [op |-> "none", n |-> 0]
    /\ ret = NotReturned

AnalyzeComprehensiveCall ==
    \E individual_analyses \in FrameAnalyses :
        LET done == AnalyzeComprehensive(analysis_history, individual_analyses, clock)
        IN /\ call.n < MaxCalls
           /\ call' = [op |-> "analyze_comprehensive", n |-> call.n + 1,
                       individual_analyses |-> individual_analyses,
                       now |-> clock, history_before |-> analysis_history]
           /\ analysis_history' = done.analysis_history
           /\ ret' = [kind |-> "value", value |-> done.integrated_results,
                      patterns_calls |-> done.patterns_calls]
           /\ clock' = clock + 1
           /\ UNCHANGED <<detections_table, temporal_patterns>>

NextComprehensive == AnalyzeComprehensiveCall

SpecComprehensive == InitComprehensive /\ [][NextComprehensive]_vars

-----------------------------------------------------------------------------
(* Claims about the history kept across analyze_comprehensive calls        *)

\* the entry _add_to_pattern_analysis would record for the call just served
C28_OwnEntryTimestamp == IsoFormat(call.now)

\* C28: after n sequential analyze_comprehensive calls analysis_history holds
\* the entries of the most recent min(n, 1000) calls: its length is min(n, 1000)
\* and its last entry is the one of the call just served
C28_HistoryHoldsRecentCalls ==
    call.op = "analyze_comprehensive" =>
        /\ Len(analysis_history) = Min(call.n, 1000)
        /\ analysis_history[Len(analysis_history)].timestamp = C28_OwnEntryTimestamp

\* C29: a call submits its detection to the pattern store and includes a
\* pattern_analysis section iff analysis_history was non-empty when it started:
\* the first call on a fresh system does neither, and every later call calls
\* add_detection, then analyze_patterns, and only then appends its own entry
C29_PatternAnalysisFromSecondCall ==
    call.op = "analyze_comprehensive" =>
        /\ ("pattern_analysis" \in DOMAIN ret.value) <=> (call.history_before # <<>>)
        /\ (ret.patterns_calls # <<>>) <=> (call.history_before # <<>>)
        /\ call.n = 1 => ret.patterns_calls = <<>>
        /\ call.n > 1 =>
              /\ ret.patterns_calls = <<"add_detection", "analyze_patterns">>
              /\ Len(analysis_history) > Len(call.history_before)
                 \/ Len(call.history_before) = 1000

-----------------------------------------------------------------------------
(* IntegratedAnalysisSystem._add_to_pattern_analysis, statement by         *)
(* statement: the method takes no lock, so threads sharing one system may  *)
(* be switched between its test, its pop and its append                    *)

\* if len(self.analysis_history) >= 1000
history_limit == 1000

\* the dict appended to self.analysis_history
HistoryEntry(results) ==
    [timestamp |-> results.timestamp,
     employee_id |-> ExtractEmployeeId(results),
     assessment |-> Get(results, "integrated_assessment", EmptyDict),
     violations |-> Get(Get(results, "integrated_assessment", EmptyDict),
                        "policy_violations", <<>>),
     confidence_scores |-> Get(results, "confidence_scores", EmptyDict)]

MaxThreads == 2

Threads == 1..MaxThreads

\* integrated_results of an event analysed at time now
ResultsAt(now, individual_analyses) ==
    [timestamp |-> IsoFormat(now),
     individual_analyses |-> individual_analyses,
     integrated_assessment |-> CorrelateAnalyses(individual_analyses),
     confidence_scores |-> EmptyDict]

KnownEmployeeFrame ==
    [face |-> [detected |-> TRUE, employee_detected |-> TRUE,
               employee_info |-> [name |-> MariaSilva]],
     attributes |-> [dress_code_compliant |-> TRUE, formal_score10 |-> 8],
     badge |-> BadgeOutput(TRUE, TRUE, TRUE, TRUE),
     schedule |-> AnalyzeScheduleCompliance(FALSE, "unknown", TRUE, <<>>)]

UnknownPersonFrame ==
    [face |-> [detected |-> TRUE, employee_detected |-> FALSE],
     attributes |-> [dress_code_compliant |-> TRUE, formal_score10 |-> 8],
     badge |-> BadgeOutput(FALSE, FALSE, FALSE, FALSE),
     schedule |-> AnalyzeScheduleCompliance(FALSE, "unknown", TRUE, <<>>)]

\* the history after n earlier events, one a second
PastHistory(n) == [i \in 1..n |-> HistoryEntry(ResultsAt(i, KnownEmployeeFrame))]

\* empty, one short of the limit, and full
PastHistories == {PastHistory(n) : n \in {0, history_limit - 1, history_limit}}

InitHistory ==
    /\ detections_table = <<>>
    /\ temporal_patterns = <<>>
    /\ clock = 0
    /\ analysis_history \in PastHistories
    /\ call = [t \in Threads |-> [op |-> "none"]]
    /\ ret = [t \in Threads |-> NotReturned]

\* thread t enters the method with the results of its event
AddToPatternAnalysisCall(t) ==
    \E individual_analyses \in {KnownEmployeeFrame, UnknownPersonFrame} :
        /\ call[t].op = "none"
        /\ call' = [call EXCEPT ![t] =
                        [op |-> "_add_to_pattern_analysis", pc |-> "test",
                         results |-> ResultsAt(history_limit + t, individual_analyses)]]
        /\ UNCHANGED <<detections_table, temporal_patterns, clock, analysis_history, ret>>

\* if len(self.analysis_history) >= 1000
TestLimit(t) ==
    /\ call[t].op = "_add_to_pattern_analysis"
    /\ call[t].pc = "test"
    /\ call' = [call EXCEPT ![t].pc = IF Len(analysis_history) >= history_limit
                                      THEN "pop" ELSE "append"]
    /\ UNCHANGED <<detections_table, temporal_patterns, clock, analysis_history, ret>>

\* self.analysis_history.pop(0); on an empty list IndexError, which the except
\* clause of the method prints before returning
PopOldest(t) ==
    /\ call[t].op = "_add_to_pattern_analysis"
    /\ call[t].pc = "pop"
    /\ IF analysis_history = <<>>
       THEN /\ call' = [call EXCEPT ![t].pc = "done"]
            /\ ret' = [ret EXCEPT ![t] = None]
            /\ UNCHANGED analysis_history
       ELSE /\ analysis_history' = Tail(analysis_history)
            /\ call' = [call EXCEPT ![t].pc = "append"]
            /\ UNCHANGED ret
    /\ UNCHANGED <<detections_table, temporal_patterns, clock>>

\* self.analysis_history.append({...}) and the return
AppendEntry(t) ==
    /\ call[t].op = "_add_to_pattern_analysis"
    /\ call[t].pc = "append"
    /\ analysis_history' = Append(analysis_history, HistoryEntry(call[t].results))
    /\ call' = [call EXCEPT ![t].pc = "done"]
    /\ ret' = [ret EXCEPT ![t] = None]
    /\ UNCHANGED <<detections_table, temporal_patterns, clock>>

NextHistory ==
    \E t \in Threads :
        \/ AddToPatternAnalysisCall(t)
        \/ TestLimit(t)
        \/ PopOldest(t)
        \/ AppendEntry(t)

SpecHistory == InitHistory /\ [][NextHistory]_vars

-----------------------------------------------------------------------------
(* Claims about concurrent updates of the history                          *)

C27_Returned(t) == call[t].op = "_add_to_pattern_analysis" /\ call[t].pc = "done"

C27_EntriesOf(t) ==
    {i \in 1..Len(analysis_history) :
        analysis_history[i].timestamp = call[t].results.timestamp}

C27_AloneOnFullHistory ==
    /\ C27_Returned(1)
    /\ call[2].op = "none"
    /\ Len(analysis_history) = history_limit
    /\ analysis_history[1].timestamp = IsoFormat(2)
    /\ analysis_history[history_limit].timestamp = call[1].results.timestamp

====
